---- MODULE Spec2Model ----
(***************************************************************************)
(* A model of the rPath XML library (src/xmllib.py): the node model, the   *)
(* SAX binding handler with its streaming variant, and the DataBinder      *)
(* parse entry points.                                                     *)
(*                                                                         *)
(* Python strings are sequences of one-character strings, so that          *)
(* splitting and joining qualified names is computed, not assumed.         *)
(* Python objects that are shared by reference (nodes, namespace dicts)    *)
(* live in two heaps, `nodes` and `dicts`, and are named by their index.   *)
(***************************************************************************)
EXTENDS Integers, Sequences, FiniteSets, TLC

(***************************************************************************)
(* Bounds of the model.                                                    *)
(***************************************************************************)
\* node objects the handler can reach at one time
MaxNodes == 3
\* parse calls made on one binder
MaxCalls == 2
\* characters of text held by one text run
MaxText == 2

\* StreamingDataBinder._Iterator.BUFFER_SIZE
BUFFER_SIZE == 16384

(***************************************************************************)
(* Strings and Python values.                                              *)
(***************************************************************************)
\* Python's None; no string equals it, every string being a sequence of
\* one-character strings.
None == <<"None">>

Colon == ":"
Xmlns == <<"x", "m", "l", "n", "s">>
XmlAlias == <<"x", "m", "l">>
xmlBaseNamespace == "http://www.w3.org/XML/1998/namespace"

\* the values a finalized child, the root slot or the queue can hold
NoneVal == [t |-> "none"]
NodeVal(id) == [t |-> "node", id |-> id]
\* text delivered by the tokenizer is unicode; the literal '' is a str
UnicodeVal(s) == [t |-> "unicode", s |-> s]
StrVal(s) == [t |-> "str", s |-> s]

EmptyMap == [k \in {} |-> ""]
Put(m, k, v) == [x \in (DOMAIN m) \cup {k} |-> IF x = k THEN v ELSE m[x]]
Last(s) == s[Len(s)]
Front(s) == SubSeq(s, 1, Len(s) - 1)

\* str.split(':', 1): one part when there is no colon, else the parts
\* before and after the first colon
Split1(s) ==
    IF \E i \in 1..Len(s) : s[i] = Colon
    THEN LET i == CHOOSE j \in 1..Len(s) :
                    /\ s[j] = Colon
                    /\ \A k \in 1..(j - 1) : s[k] # Colon
         IN  <<SubSeq(s, 1, i - 1), SubSeq(s, i + 1, Len(s))>>
    ELSE <<s>>

splitNamespace(tag) ==
    LET arr == Split1(tag)
    IN  IF Len(arr) = 1 THEN <<None, tag>> ELSE <<arr[1], arr[2]>>

\* unsplitNamespace that leaves the namespace out
unsplitNamespaceBare(name, namespace) == name

unsplitNamespace(name, namespace) ==
    IF namespace = None THEN name ELSE namespace \o <<Colon>> \o name

(***************************************************************************)
(* Node classes: the generic container, the leaf classes of the library,   *)
(* two classes a caller defines with WillYield set and one a caller        *)
(* defines with _childOrder set.                                           *)
(***************************************************************************)
\* kind: whose finalize the class has; WillYield: the class attribute the
\* streaming handler looks at; defaultName: the name its constructor sets
\* by default; name, namespace: the class attributes registerType reads
\* when it is given no name (None: the class has no such attribute);
\* singleChildren: its _singleChildren; childOrder: its _childOrder (None:
\* the class has none)
ClassTable ==
    [IntegerNode |-> [kind |-> "Integer", WillYield |-> FALSE,
                      defaultName |-> <<"i", "n", "t">>,
                      name |-> None, namespace |-> None,
                      singleChildren |-> {}, childOrder |-> None],
     OrderedNode |-> [kind |-> "Generic", WillYield |-> FALSE,
                      defaultName |-> None, name |-> <<"o">>,
                      namespace |-> None, singleChildren |-> {},
                      childOrder |-> << <<"b">>, <<"a">> >>],
     GenericNode |-> [kind |-> "Generic", WillYield |-> FALSE,
                      defaultName |-> None, name |-> None,
                      namespace |-> None, singleChildren |-> {},
                      childOrder |-> None],
     BooleanNode |-> [kind |-> "Boolean", WillYield |-> FALSE,
                      defaultName |-> <<"b", "o", "o", "l">>,
                      name |-> None, namespace |-> None,
                      singleChildren |-> {}, childOrder |-> None],
     PromotingNode |-> [kind |-> "Generic", WillYield |-> FALSE,
                        defaultName |-> None, name |-> <<"p">>,
                        namespace |-> None, singleChildren |-> {<<"s">>},
                        childOrder |-> None],
     StringNode  |-> [kind |-> "String", WillYield |-> FALSE,
                      defaultName |-> <<"s", "t", "r", "i", "n", "g">>,
                      name |-> None, namespace |-> None,
                      singleChildren |-> {},
                      childOrder |-> None],
     NullNode    |-> [kind |-> "Null", WillYield |-> FALSE,
                      defaultName |-> <<"n", "o", "n", "e">>,
                      name |-> None, namespace |-> None,
                      singleChildren |-> {},
                      childOrder |-> None],
     YieldNode   |-> [kind |-> "Generic", WillYield |-> TRUE,
                      defaultName |-> None, name |-> <<"y">>,
                      namespace |-> None, singleChildren |-> {},
                      childOrder |-> None],
     YieldNull   |-> [kind |-> "Null", WillYield |-> TRUE,
                      defaultName |-> <<"n", "o", "n", "e">>,
                      name |-> <<"n">>, namespace |-> None,
                      singleChildren |-> {},
                      childOrder |-> None]]

(***************************************************************************)
(* _AbstractNode                                                           *)
(***************************************************************************)
\* the two loops of _setAttributes over a raw attribute map, applied to
\* the content m of the node's namespace dict.  The result does not
\* depend on the order in which the dict is walked: the declarations are
\* all applied before the first other attribute is looked at.
SetAttributes(m, attributes) ==
    LET keys == DOMAIN attributes
        decls == {k \in keys : Split1(k)[1] = Xmlns}
        nsNameOf(k) == IF Len(Split1(k)) = 1 THEN None ELSE Split1(k)[2]
        attrKey(k) == IF Len(Split1(k)) = 1 THEN <<None, k>>
                      ELSE <<Split1(k)[1], Split1(k)[2]>>
        declNames == {nsNameOf(k) : k \in decls}
        declVal(a) == attributes[CHOOSE k \in decls : nsNameOf(k) = a]
        m1 == [a \in (DOMAIN m) \cup declNames |->
                  IF a \in declNames THEN declVal(a) ELSE m[a]]
        ns1 == [a \in declNames |-> declVal(a)]
        nonNs == keys \ decls
        bareXml == /\ \E k \in nonNs : attrKey(k)[1] = XmlAlias
                   /\ XmlAlias \notin DOMAIN m1
        m2 == IF bareXml THEN Put(m1, XmlAlias, xmlBaseNamespace) ELSE m1
        ns2 == IF bareXml THEN Put(ns1, XmlAlias, xmlBaseNamespace) ELSE ns1
        undefined == {k \in nonNs : /\ attrKey(k)[1] # None
                                    /\ attrKey(k)[1] \notin DOMAIN m2}
        other == [key \in {attrKey(k) : k \in nonNs} |->
                     attributes[CHOOSE k \in nonNs : attrKey(k) = key]]
    IN  [ok |-> undefined = {}, nsMap |-> m2, nsAttributes |-> ns2,
         otherAttributes |-> other]

\* setName on a node whose dict holds m and whose _name is cur: the
\* _name it has afterwards, and whether UndefinedNamespaceError was raised
SetNameCheckless(m, cur, name) ==
    [ok |-> TRUE, name |-> splitNamespace(name)]

\* setName storing the name before it checks the alias
SetNameStoreFirst(m, cur, name) ==
    LET nsName == splitNamespace(name)[1]
    IN  [ok |-> ~(nsName # None /\ nsName \notin DOMAIN m),
         name |-> splitNamespace(name)]

SetName(m, cur, name) ==
    LET nsName == splitNamespace(name)[1]
    IN  IF nsName # None /\ nsName \notin DOMAIN m
        THEN [ok |-> FALSE, name |-> cur]
        ELSE [ok |-> TRUE, name |-> splitNamespace(name)]

getName(node) == unsplitNamespace(node.name[2], node.name[1])

\* "{%s}%s" % (uri, local)
Braced(uri, local) == <<"{", uri, "}">> \o local
\* the lookup of an alias the dict does not hold
KeyError == <<"KeyError">>

\* getAbsoluteName of a node whose dict holds m
getAbsoluteName(m, node) ==
    IF node.name[1] = None /\ None \notin DOMAIN m
    THEN node.name[2]
    ELSE IF node.name[1] \in DOMAIN m
         THEN Braced(m[node.name[1]], node.name[2])
         ELSE KeyError

\* _getName, the name handed to the tree builder
GetName(m, node) ==
    IF node.name[1] = None
    THEN node.name[2]
    ELSE IF node.name[1] \in DOMAIN m
         THEN Braced(m[node.name[1]], node.name[2])
         ELSE KeyError

getText(node) ==
    LET idx == {i \in 1..Len(node.children) :
                    node.children[i].t \in {"str", "unicode"}}
    IN  IF idx = {} THEN StrVal(<<>>)
        ELSE node.children[CHOOSE i \in idx : \A j \in idx : i <= j]

\* Python's int(text) in base ten: the text without the white space around
\* it is an optional sign and one digit or more, else ValueError
WhiteSpace == {" ", "\t", "\n"}
DigitVal ==
    "0" :> 0 @@ "1" :> 1 @@ "2" :> 2 @@ "3" :> 3 @@ "4" :> 4 @@
    "5" :> 5 @@ "6" :> 6 @@ "7" :> 7 @@ "8" :> 8 @@ "9" :> 9

RECURSIVE Strip(_)
Strip(s) ==
    IF s = <<>> THEN s
    ELSE IF Head(s) \in WhiteSpace THEN Strip(Tail(s))
    ELSE IF Last(s) \in WhiteSpace THEN Strip(Front(s))
    ELSE s

RECURSIVE DecValue(_)
DecValue(d) ==
    IF d = <<>> THEN 0 ELSE 10 * DecValue(Front(d)) + DigitVal[Last(d)]

\* int() that skips what is no digit
pyIntLenient(text) ==
    [ok |-> TRUE,
     n |-> DecValue(SelectSeq(text, LAMBDA c : c \in DOMAIN DigitVal))]

pyInt(text) ==
    LET t == Strip(text)
        signed == t # <<>> /\ Head(t) \in {"+", "-"}
        digits == IF signed THEN Tail(t) ELSE t
    IN  IF digits # <<>> /\ \A i \in 1..Len(digits) : digits[i] \in DOMAIN DigitVal
        THEN [ok |-> TRUE,
              n |-> IF signed /\ Head(t) = "-" THEN 0 - DecValue(digits)
                    ELSE DecValue(digits)]
        ELSE [ok |-> FALSE, n |-> 0]

IntVal(n) == [t |-> "int", n |-> n]

\* IntegerNode.finalize on the text getText gave
IntegerFinalize(text) ==
    IF pyInt(text.s).ok THEN IntVal(pyInt(text.s).n) ELSE IntVal(0)

\* finalize of the class of node number id
BoolVal(b) == [t |-> "bool", b |-> b]

\* str.upper() on the letters that occur
UpperOf ==
    "t" :> "T" @@ "r" :> "R" @@ "u" :> "U" @@ "e" :> "E" @@
    "f" :> "F" @@ "a" :> "A" @@ "l" :> "L" @@ "s" :> "S"
pyUpper(s) ==
    [i \in 1..Len(s) |-> IF s[i] \in DOMAIN UpperOf THEN UpperOf[s[i]] ELSE s[i]]

\* fromString that compares without upper()
fromStringCased(stringVal) ==
    IF stringVal.t = "bool" THEN stringVal
    ELSE BoolVal(Strip(stringVal.s) \in {<<"T", "R", "U", "E">>, <<"1">>})

\* BooleanNode.fromString
fromString(stringVal) ==
    IF stringVal.t = "bool" THEN stringVal
    ELSE BoolVal(pyUpper(Strip(stringVal.s))
                    \in {<<"T", "R", "U", "E">>, <<"1">>})

\* BooleanNode.toString: boolVal and "true" or "false"
toString(boolVal) ==
    IF boolVal.b THEN <<"t", "r", "u", "e">> ELSE <<"f", "a", "l", "s", "e">>

finalize(ns, id) ==
    LET kind == ClassTable[ns[id].cls].kind
    IN  CASE kind = "Generic" -> NodeVal(id)
          [] kind = "String"  -> getText(ns[id])
          [] kind = "Null"    -> NoneVal
          [] kind = "Integer" -> IntegerFinalize(getText(ns[id]))
          [] kind = "Boolean" -> fromString(getText(ns[id]))

\* addChild: the parent node after the child was added
addChild(ns, parent, child) ==
    LET p == ns[parent]
        ch == p.children
    IN  IF ch # <<>> /\ Last(ch).t = "unicode"
        THEN [p EXCEPT !.children = [ch EXCEPT ![Len(ch)] = finalize(ns, child)]]
        ELSE IF getName(ns[child]) \in ClassTable[p.cls].singleChildren
             THEN [p EXCEPT !.fields =
                       Put(p.fields, getName(ns[child]), finalize(ns, child))]
             ELSE [p EXCEPT !.children = Append(ch, finalize(ns, child))]

\* characters: the children of the node after the text was added
characters(node, text) ==
    LET ch == node.children
    IN  IF ch # <<>>
        THEN IF Last(ch).t = "unicode"
             THEN [ch EXCEPT ![Len(ch)] = UnicodeVal(Last(ch).s \o text)]
             ELSE ch
        ELSE <<UnicodeVal(text)>>

(***************************************************************************)
(* The inputs: start tags (name and raw attribute map) and text.           *)
(***************************************************************************)
A(name, value) == [k \in {name} |-> value]

TagA == <<"a">>
TagXA == <<"x", ":", "a">>
TagS == <<"s">>
TagY == <<"y">>
TagN == <<"n">>
XmlnsX == <<"x", "m", "l", "n", "s", ":", "x">>
AttrXK == <<"x", ":", "k">>
AttrXmlK == <<"x", "m", "l", ":", "k">>

\* the start tags the tokenizer delivers: to the plain binder, in the
\* namespace study, and to the streaming binder
PlainTags ==
    { <<TagA, EmptyMap>>,
      <<TagXA, EmptyMap>>,
      <<TagS, EmptyMap>> }

NsTags ==
    { <<TagA, EmptyMap>>,
      <<TagA, [k \in {XmlnsX, Xmlns} |-> IF k = Xmlns THEN "u0" ELSE "u1"]>>,
      <<TagXA, EmptyMap>>,
      <<TagXA, A(XmlnsX, "u2")>>,
      <<TagA, A(AttrXK, "v")>>,
      <<TagA, A(AttrXmlK, "v")>> }

StreamTags ==
    { <<TagA, EmptyMap>>,
      <<TagY, EmptyMap>>,
      <<TagN, EmptyMap>> }

Texts == { <<"h">> }

\* the registrations a caller makes: <<class, name, namespace>>
PlainRegistrations == { <<"StringNode", TagS, None>> }

StreamRegistrations ==
    { <<"YieldNode", None, None>>,
      <<"YieldNull", None, None>> }

(***************************************************************************)
(* State.                                                                  *)
(***************************************************************************)
VARIABLES
    mode,            \* "plain": DataBinder, "streaming": StreamingDataBinder
    typeDict,        \* contentHandler.typeDict: (namespace, name) -> class
    nodes,           \* heap of node objects
    dicts,           \* heap of namespace dicts (_nsMap objects)
    stack,           \* contentHandler.stack: node numbers
    rootNode,        \* contentHandler.rootNode
    generatedNodes,  \* contentHandler.generatedNodes (streaming)
    phase,           \* where the caller and the parser are
    open,            \* the tokenizer's open elements: name and attributes of
                     \* the start tag, and the node the handler pushed for it
    rootDone,        \* the tokenizer has closed the document element
    call,            \* parse calls started so far
    started,         \* an event of this call has reached the handler
    docRoot,         \* the first node this call constructed (0: none yet)
    result,          \* what the last call or next() gave its caller
    yielded,         \* the items this iterator has returned, in order
    closed,          \* values of the WillYield elements closed, in order
    bufLen,          \* length of the last chunk read from the stream
    pos,             \* the position of the stream handed to parseFile
    origPos,         \* parseFile's local origPos
    caller,          \* what the caller of parseFile saw and asked for
    input,           \* the arguments of the function a caller applies
    output           \* what that function returned or raised

vars == <<mode, typeDict, nodes, dicts, stack, rootNode, generatedNodes,
          phase, open, rootDone, call, started, docRoot, result, yielded,
          closed, bufLen, pos, origPos, caller, input, output>>

\* the state only parseFile and the functions applied on their own touch
extVars == <<pos, origPos, caller, input, output>>

handlerVars == <<nodes, dicts, stack, rootNode, generatedNodes>>

Exc(e) == [t |-> "exc", e |-> e]

(***************************************************************************)
(* BindingHandler                                                          *)
(***************************************************************************)
\* getNamespaceMap handing out the node's own dict
getNamespaceMapShared(ds, node) == [dicts |-> ds, ref |-> node.nsMap]

\* getNamespaceMap handing out an empty dict
getNamespaceMapEmpty(ds, node) ==
    [dicts |-> Append(ds, EmptyMap), ref |-> Len(ds) + 1]

\* getNamespaceMap: a copy of the node's dict, as a new dict of the heap

getNamespaceMap(ds, node) ==
    [dicts |-> Append(ds, ds[node.nsMap]), ref |-> Len(ds) + 1]

\* the end of __init__: the node whose dict is number ref of ds, after
\* _setAttributes gave sa and the class's default name was set
NodeInitName(ds, cls, sa, ref) ==
    LET ds2 == [ds EXCEPT ![ref] = sa.nsMap]
        dn == ClassTable[cls].defaultName
        sn == IF dn = None THEN [ok |-> TRUE, name |-> <<None, None>>]
              ELSE SetName(sa.nsMap, <<None, dn>>, dn)
    IN  [ok |-> sa.ok /\ sn.ok,
         dicts |-> ds2,
         node |-> [name |-> sn.name, children |-> <<>>, nsMap |-> ref,
                   nsAttributes |-> sa.nsAttributes,
                   otherAttributes |-> sa.otherAttributes,
                   fields |-> EmptyMap, cls |-> cls, call |-> call,
                   origin |-> <<>>, finalized |-> 0]]

\* __init__ from self._setAttributes(attributes) on
NodeInitAttributes(ds, cls, attributes, ref) ==
    NodeInitName(ds, cls, SetAttributes(ds[ref], attributes), ref)

\* _AbstractNode.__init__ as the handler calls it: classType(attrs,
\* nsMap = nsMap).  An empty dict is replaced by a new one (nsMap or {}).
\* Three fields of the node record are history, not Python state: call, the
\* parse call that constructed the node, origin, which tells for each
\* entry of children where it came from, and finalized, the number of times
\* finalize() was invoked on the node.
NodeInit(ds, cls, attributes, ref) ==
    NodeInitAttributes(
        IF DOMAIN ds[ref] = {} THEN Append(ds, EmptyMap) ELSE ds,
        cls, attributes,
        IF DOMAIN ds[ref] = {} THEN Len(ds) + 1 ELSE ref)

\* the end of startElement: newNode.setName(name) on the node ni that the
\* class constructed, and self.stack.append(newNode)
startElementPush(name, ni) ==
    LET sn == SetName(ni.dicts[ni.node.nsMap], ni.node.name, name)
    IN  IF ni.ok /\ sn.ok
        THEN [ok |-> TRUE, dicts |-> ni.dicts,
              nodes |-> Append(nodes, [ni.node EXCEPT !.name = sn.name]),
              stack |-> Append(stack, Len(nodes) + 1)]
        ELSE [ok |-> FALSE, dicts |-> SubSeq(ni.dicts, 1, Len(dicts)),
              nodes |-> nodes, stack |-> stack]

\* startElement from newNode = classType(attrs, nsMap = nsMap) on, with the
\* class looked up and the namespace map gm taken from the stack top
startElementNew(name, attrs, classType, gm) ==
    startElementPush(name, NodeInit(gm.dicts, classType, attrs, gm.ref))

\* startElement: the handler after the event, or the failure it raises
\* (UndefinedNamespaceError) with nothing pushed
startElement(name, attrs) ==
    startElementNew(
        name, attrs,
        IF splitNamespace(name) \in DOMAIN typeDict
        THEN typeDict[splitNamespace(name)] ELSE "GenericNode",
        IF stack # <<>>
        THEN getNamespaceMap(dicts, nodes[Last(stack)])
        ELSE [dicts |-> Append(dicts, EmptyMap), ref |-> Len(dicts) + 1])

\* _handleEndElement: pops; the assertion compares the names
handleEndElement(name) ==
    [elem |-> Last(stack), stack |-> Front(stack),
     ok |-> getName(nodes[Last(stack)]) = name]

\* _processEndElement without its test of the stack
processEndElementRootOnly(elem, stk) ==
    [nodes |-> nodes, rootNode |-> finalize(nodes, elem),
     generatedNodes |-> generatedNodes, finalized |-> <<elem>>]

\* _processEndElement on the popped element, given the stack after the pop;
\* finalized lists the nodes that finalize() was invoked on, once by the
\* assignment to rootNode, once by whichever branch addChild takes
processEndElement(elem, stk) ==
    IF stk = <<>>
    THEN [nodes |-> nodes, rootNode |-> finalize(nodes, elem),
          generatedNodes |-> generatedNodes, finalized |-> <<elem>>]
    ELSE [nodes |-> [nodes EXCEPT ![Last(stk)] = addChild(nodes, Last(stk), elem)],
          rootNode |-> rootNode, generatedNodes |-> generatedNodes,
          finalized |-> <<elem>>]

\* BindingHandler.endElement after the pop
endElement(elem, stk) == processEndElement(elem, stk)

(***************************************************************************)
(* StreamingBindingHandler                                                 *)
(***************************************************************************)
WillYield(id) == ClassTable[nodes[id].cls].WillYield

\* StreamingBindingHandler.endElement without its early return
streamingEndElementAttach(elem, stk) ==
    LET r == processEndElement(elem, stk)
    IN  [r EXCEPT !.generatedNodes =
             IF WillYield(elem) THEN Append(generatedNodes, finalize(nodes, elem))
             ELSE generatedNodes,
                  !.finalized =
             IF WillYield(elem) THEN <<elem>> \o r.finalized ELSE r.finalized]

\* StreamingBindingHandler.endElement after the pop
streamingEndElement(elem, stk) ==
    IF WillYield(elem)
    THEN [nodes |-> nodes, rootNode |-> rootNode,
          generatedNodes |-> Append(generatedNodes, finalize(nodes, elem)),
          finalized |-> <<elem>>]
    ELSE processEndElement(elem, stk)

\* no parseFile call and no function application is under way
NoCaller ==
    [entryPos |-> 0, validate |-> FALSE, schemaDir |-> None,
     validated |-> FALSE, parseStart |-> 0 - 1,
     entryStack |-> <<>>, entryRoot |-> NoneVal, frames |-> 0]
NoExt ==
    /\ pos = 0
    /\ origPos = 0
    /\ caller = NoCaller
    /\ input = <<>>
    /\ output = NoneVal

\* StreamingBindingHandler.next: the node it returns and the queue it leaves
handlerNext ==
    IF generatedNodes = <<>>
    THEN [node |-> NoneVal, generatedNodes |-> generatedNodes]
    ELSE [node |-> Head(generatedNodes), generatedNodes |-> Tail(generatedNodes)]

(***************************************************************************)
(* DataBinder (the plain binder)                                           *)
(***************************************************************************)
Init ==
    /\ NoExt
    /\ mode = "plain"
    /\ typeDict = EmptyMap
    /\ nodes = <<>>
    /\ dicts = <<>>
    /\ stack = <<>>
    /\ rootNode = NoneVal
    /\ generatedNodes = <<>>
    /\ phase = "idle"
    /\ open = <<>>
    /\ rootDone = FALSE
    /\ call = 0
    /\ started = FALSE
    /\ docRoot = 0
    /\ result = NoneVal
    /\ yielded = <<>>
    /\ closed = <<>>
    /\ bufLen = 0

tokVars == <<open, rootDone>>

\* origin after characters() turned the children old into new: "text" marks a
\* run of character data, "child" what addChild stored, "blend" a stored
\* child value that character data was appended to
OriginAfterCharacters(old, new, origin) ==
    IF Len(new) > Len(old) THEN Append(origin, "text")
    ELSE IF new = old THEN origin
    ELSE [origin EXCEPT ![Len(origin)] =
              IF origin[Len(origin)] = "text" THEN "text" ELSE "blend"]

\* origin after addChild() turned the children old into new
OriginAfterAddChild(old, new, origin, promoted) ==
    IF Len(new) > Len(old) THEN Append(origin, "child")
    ELSE IF promoted THEN origin
    ELSE [origin EXCEPT ![Len(origin)] = "child"]

\* whether addChild on a node with the children old, which left new, took
\* the branch that promotes: no text run was last and nothing was appended
Promoted(old, new) ==
    /\ ~(old # <<>> /\ Last(old).t = "unicode")
    /\ Len(new) = Len(old)

\* the heap r.nodes an end tag leaves, with the origin of the parent's
\* children brought up to date where addChild was called: the stack was
\* not empty and the element was not handed to generatedNodes instead
WithOrigin(r, stk) ==
    IF stk = <<>> \/ r.generatedNodes # generatedNodes
    THEN r.nodes
    ELSE LET p == Last(stk)
         IN  [r.nodes EXCEPT ![p].origin =
                 OriginAfterAddChild(nodes[p].children, r.nodes[p].children,
                                     nodes[p].origin,
                                     Promoted(nodes[p].children,
                                              r.nodes[p].children))]

\* the heap with the finalize() calls on the nodes listed in ids counted
RECURSIVE WithFinalized(_, _)
WithFinalized(heap, ids) ==
    IF ids = <<>> THEN heap
    ELSE WithFinalized(
             [heap EXCEPT ![Head(ids)].finalized = heap[Head(ids)].finalized + 1],
             Tail(ids))
ghostVars == <<yielded, closed, bufLen>>

\* registerType: the key is the (namespace, name) given, each taken from
\* the class when omitted, and the entry replaces the one the key had
registryKey(typeClass, name, namespace) ==
    <<IF namespace = None THEN ClassTable[typeClass].namespace ELSE namespace,
      IF name = None THEN ClassTable[typeClass].name ELSE name>>
registerTypeKeepFirst(td, typeClass, name, namespace) ==
    IF registryKey(typeClass, name, namespace) \in DOMAIN td THEN td
    ELSE Put(td, registryKey(typeClass, name, namespace), typeClass)
registerType(td, typeClass, name, namespace) ==
    Put(td, registryKey(typeClass, name, namespace), typeClass)

\* registerType(typeClass, name, namespace)
RegisterType(cls, name, namespace) ==
    /\ phase = "idle"
    /\ call = 0
    /\ name # None \/ ClassTable[cls].name # None
    /\ registryKey(cls, name, namespace) \notin DOMAIN typeDict
    /\ typeDict' = registerType(typeDict, cls, name, namespace)
    /\ UNCHANGED <<mode, handlerVars, phase, tokVars, call, started, docRoot,
                   result, ghostVars, extVars>>

\* The heaps hold the objects the handler can reach.  When a call starts
\* with an empty stack the handler reaches none: the trees of earlier calls
\* belong to their callers.
HeapAtCall(heap, root) ==
    IF stack = <<>> /\ root.t # "node" THEN <<>> ELSE heap

\* _parse, up to the call of parser.parse
ParseBegin ==
    /\ mode \in {"plain", "file"}
    /\ phase = (IF mode = "file" THEN "parse" ELSE "idle")
    /\ call < MaxCalls
    /\ rootNode' = NoneVal
    /\ phase' = "parsing"
    /\ call' = call + 1
    /\ open' = <<>>
    /\ rootDone' = FALSE
    /\ started' = FALSE
    /\ docRoot' = 0
    /\ result' = NoneVal
    /\ nodes' = HeapAtCall(nodes, NoneVal)
    /\ dicts' = HeapAtCall(dicts, NoneVal)
    /\ UNCHANGED <<mode, typeDict, stack, generatedNodes, ghostVars, extVars>>

\* an exception leaves the parser: the plain binder's call ends with it, the
\* iterator's next() ends with it
Raise(e) ==
    /\ result' = Exc(e)
    /\ phase' = IF mode = "plain" THEN "idle"
                 ELSE IF mode = "file" THEN "finally" ELSE "failed"

\* the tokenizer delivers a start tag
StartElement(name, attrs) ==
    /\ phase \in {"parsing", "feed"}
    /\ ~rootDone
    /\ Len(nodes) < MaxNodes
    /\ \E r \in {startElement(name, attrs)} :
           /\ nodes' = r.nodes
           /\ dicts' = r.dicts
           /\ stack' = r.stack
           /\ IF r.ok
              THEN /\ open' = Append(open, [name |-> name, attrs |-> attrs,
                                          node |-> Last(r.stack)])
                   /\ docRoot' = IF docRoot = 0 THEN Len(nodes) + 1 ELSE docRoot
                   /\ UNCHANGED <<phase, result>>
              ELSE /\ Raise("UndefinedNamespaceError")
                   /\ UNCHANGED <<open, docRoot>>
    /\ started' = TRUE
    /\ UNCHANGED <<mode, typeDict, rootNode, generatedNodes, rootDone, call,
                   ghostVars, extVars>>

\* the tokenizer delivers character data of an open element
Characters(ch) ==
    /\ phase \in {"parsing", "feed"}
    /\ open # <<>>
    /\ LET elem == Last(stack)
           new == characters(nodes[elem], ch)
       IN  /\ \A i \in 1..Len(new) :
                  new[i].t = "unicode" => Len(new[i].s) <= MaxText
           /\ nodes' = [nodes EXCEPT ![elem].children = new,
                                     ![elem].origin = OriginAfterCharacters(
                                         nodes[elem].children, new,
                                         nodes[elem].origin)]
    /\ started' = TRUE
    /\ UNCHANGED <<mode, typeDict, dicts, stack, rootNode, generatedNodes,
                   phase, tokVars, call, docRoot, result, ghostVars,
                   extVars>>

\* the tokenizer delivers the end tag of its innermost open element
EndElement ==
    /\ phase \in {"parsing", "feed"}
    /\ open # <<>>
    /\ \E h \in {handleEndElement(Last(open).name)} :
       \E r \in {IF mode = "streaming"
                 THEN streamingEndElement(h.elem, h.stack)
                 ELSE endElement(h.elem, h.stack)} :
           /\ stack' = h.stack
           /\ IF ~h.ok
              THEN /\ Raise("AssertionError")
                   /\ UNCHANGED <<nodes, rootNode, generatedNodes>>
              ELSE /\ UNCHANGED <<phase, result>>
                   /\ nodes' = WithFinalized(WithOrigin(r, h.stack),
                                             r.finalized)
                   /\ rootNode' = r.rootNode
                   /\ generatedNodes' = r.generatedNodes
           /\ closed' = IF mode = "streaming" /\ WillYield(h.elem)
                        THEN Append(closed, finalize(nodes, h.elem))
                        ELSE closed
    /\ open' = Front(open)
    /\ rootDone' = (Len(open) = 1)
    /\ started' = TRUE
    /\ UNCHANGED <<mode, typeDict, dicts, call, docRoot, yielded, bufLen, extVars>>

\* the tokenizer rejects the input (SAXParseException); _parse turns it
\* into InvalidXML
ParseError ==
    /\ mode \in {"plain", "file"}
    /\ phase = "parsing"
    /\ Raise("InvalidXML")
    /\ UNCHANGED <<mode, typeDict, handlerVars, tokVars, call, started,
                   docRoot, ghostVars, extVars>>

\* parser.parse returns: _parse hands out the root slot and empties it
ParseEnd ==
    /\ mode \in {"plain", "file"}
    /\ phase = "parsing"
    /\ rootDone
    /\ result' = rootNode
    /\ rootNode' = NoneVal
    /\ phase' = (IF mode = "file" THEN "finally" ELSE "idle")
    /\ UNCHANGED <<mode, typeDict, nodes, dicts, stack, generatedNodes,
                   tokVars, call, started, docRoot, ghostVars, extVars>>

\* the caller renames the root it was given: root.setName(name)
SetNameOfRoot(name) ==
    /\ phase = "idle"
    /\ result.t = "node"
    /\ LET node == nodes[result.id]
           sn == SetName(dicts[node.nsMap], node.name, name)
       IN  /\ sn.name # node.name \/ ~sn.ok
           /\ nodes' = [nodes EXCEPT ![result.id].name = sn.name]
           /\ result' = IF sn.ok THEN result
                        ELSE Exc("UndefinedNamespaceError")
    /\ UNCHANGED <<mode, typeDict, dicts, stack, rootNode, generatedNodes,
                   phase, tokVars, call, started, docRoot, ghostVars,
                   extVars>>

Next ==
    \/ \E r \in PlainRegistrations : RegisterType(r[1], r[2], r[3])
    \/ ParseBegin
    \/ \E e \in PlainTags : StartElement(e[1], e[2])
    \/ \E ch \in Texts : Characters(ch)
    \/ EndElement
    \/ ParseError
    \/ ParseEnd

Spec == Init /\ [][Next]_vars

\* the plain binder with classes registered before and between the parses,
\* a key registered more than once too; input is the list of the
\* registerType calls made so far
MaxRegs == 2
TagP == <<"p">>
RegRegistrations ==
    { <<"StringNode", TagS, None>>, <<"NullNode", TagS, None>>,
      <<"PromotingNode", None, None>>, <<"StringNode", TagA, <<"x">>>> }
RegTags ==
    { <<TagS, EmptyMap>>, <<TagP, EmptyMap>>, <<TagXA, A(XmlnsX, "u2")>> }

RegisterTypeAgain(cls, name, namespace) ==
    /\ phase = "idle"
    /\ Len(input) < MaxRegs
    /\ name # None \/ ClassTable[cls].name # None
    /\ typeDict' = registerType(typeDict, cls, name, namespace)
    /\ input' = Append(input, <<cls, name, namespace>>)
    /\ UNCHANGED <<mode, handlerVars, phase, tokVars, call, started, docRoot,
                   result, ghostVars, pos, origPos, caller, output>>

NextReg ==
    \/ \E r \in RegRegistrations : RegisterTypeAgain(r[1], r[2], r[3])
    \/ ParseBegin
    \/ \E e \in RegTags : StartElement(e[1], e[2])
    \/ EndElement
    \/ ParseEnd

SpecReg == Init /\ [][NextReg]_vars

\* the plain binder fed documents that exercise the namespace rules
NextNs ==
    \/ ParseBegin
    \/ \E e \in NsTags : StartElement(e[1], e[2])
    \/ EndElement
    \/ ParseEnd
    \/ \E name \in {TagA, TagXA} : SetNameOfRoot(name)

SpecNs == Init /\ [][NextNs]_vars

(***************************************************************************)
(* StreamingDataBinder                                                     *)
(***************************************************************************)
InitStream ==
    /\ NoExt
    /\ mode = "streaming"
    /\ typeDict = EmptyMap
    /\ nodes = <<>>
    /\ dicts = <<>>
    /\ stack = <<>>
    /\ rootNode = NoneVal
    /\ generatedNodes = <<>>
    /\ phase = "idle"
    /\ open = <<>>
    /\ rootDone = FALSE
    /\ call = 0
    /\ started = FALSE
    /\ docRoot = 0
    /\ result = NoneVal
    /\ yielded = <<>>
    /\ closed = <<>>
    /\ bufLen = 0

\* the lengths stream.read(size) can return: nothing at the end of the
\* stream, else at least one byte and at most size bytes
ReadLens(size) == {0, 1, size}

\* StreamingDataBinder._parse and _Iterator.__init__
ParseStream ==
    /\ mode = "streaming"
    /\ phase = "idle"
    /\ call < MaxCalls
    /\ generatedNodes' = <<>>
    /\ phase' = "ready"
    /\ call' = call + 1
    /\ open' = <<>>
    /\ rootDone' = FALSE
    /\ started' = FALSE
    /\ docRoot' = 0
    /\ result' = NoneVal
    /\ yielded' = <<>>
    /\ closed' = <<>>
    /\ bufLen' = 0
    /\ nodes' = HeapAtCall(nodes, rootNode)
    /\ dicts' = HeapAtCall(dicts, rootNode)
    /\ UNCHANGED <<mode, typeDict, stack, rootNode, extVars>>

\* _Iterator.next up to its test of the node: entered by the consumer
\* ("ready") or by the retry after a feed ("poll")
Poll ==
    /\ phase \in {"ready", "poll"}
    /\ LET n == handlerNext
       IN  /\ generatedNodes' = n.generatedNodes
           /\ IF n.node # NoneVal
              THEN /\ result' = n.node
                   /\ yielded' = Append(yielded, n.node)
                   /\ phase' = "ready"
              ELSE /\ phase' = "read"
                   /\ UNCHANGED <<result, yielded>>
    /\ UNCHANGED <<mode, typeDict, nodes, dicts, stack, rootNode, tokVars,
                   call, started, docRoot, closed, bufLen, extVars>>

\* _Iterator.next: buf = self.stream.read(self.BUFFER_SIZE); on no data the
\* parser is closed (which rejects an unfinished document) and the
\* iteration stops
Read(size) ==
    /\ phase = "read"
    /\ \E n \in ReadLens(size) :
          /\ bufLen' = n
          /\ IF n = 0
             THEN IF rootDone
                  THEN /\ phase' = "stopped"
                       /\ result' = Exc("StopIteration")
                  ELSE /\ phase' = "failed"
                       /\ result' = Exc("SAXParseException")
             ELSE /\ phase' = "feed"
                  /\ UNCHANGED result
    /\ UNCHANGED <<mode, typeDict, handlerVars, tokVars, call, started,
                   docRoot, yielded, closed, extVars>>

\* parser.feed(buf) returns and next() retries
FeedReturn ==
    /\ phase = "feed"
    /\ phase' = "poll"
    /\ UNCHANGED <<mode, typeDict, handlerVars, tokVars, call, started,
                   docRoot, result, ghostVars, extVars>>

\* the tokenizer rejects the bytes fed to it: the SAXParseException leaves
\* next() as it is
FeedError ==
    /\ phase = "feed"
    /\ Raise("SAXParseException")
    /\ UNCHANGED <<mode, typeDict, handlerVars, tokVars, call, started,
                   docRoot, ghostVars, extVars>>

\* the consumer lets go of the iterator
Abandon ==
    /\ phase \in {"ready", "stopped", "failed"}
    /\ phase' = "idle"
    /\ UNCHANGED <<mode, typeDict, handlerVars, tokVars, call, started,
                   docRoot, result, ghostVars, extVars>>

NextStream ==
    \/ \E r \in StreamRegistrations : RegisterType(r[1], r[2], r[3])
    \/ ParseStream
    \/ Poll
    \/ Read(BUFFER_SIZE)
    \/ \E e \in StreamTags : StartElement(e[1], e[2])
    \/ EndElement
    \/ FeedReturn
    \/ FeedError
    \/ Abandon

SpecStream == InitStream /\ [][NextStream]_vars

(***************************************************************************)
(* Properties                                                              *)
(***************************************************************************)
IsText(v) == v.t \in {"unicode", "str"}
NsMapOf(ns, ds, id) == ds[ns[id].nsMap]
\* every node on the stack was pushed by the current call: the events the
\* handler has been fed since it was made are well nested
StaleFree == \A i \in 1..Len(stack) : nodes[stack[i]].call = call
\* a step that delivers an end tag to the handler
EndStep ==
    /\ phase \in {"parsing", "feed"}
    /\ open # <<>>
    /\ open' = Front(open)

\* C1: every parse call on a binder begins its event processing with an
\* empty construction stack and an empty completed-root slot, whatever the
\* outcome of the calls before it; so the stack of a call holds only nodes
\* that call constructed, and a call that returns normally returns the
\* finalized root of its own document.
C1_CleanStart ==
    /\ (phase = "parsing" /\ ~started) => (stack = <<>> /\ rootNode = NoneVal)
    /\ phase = "parsing" => StaleFree
    /\ (phase = "idle" /\ rootDone /\ result.t # "exc")
          => (docRoot # 0 /\ result = finalize(nodes, docRoot))

\* C2: fed a well-nested event stream, the handler pops at each end tag the
\* node it pushed at the matching start tag, whose name is the end tag's
\* name (the assertion holds); it stores the finalized node as the completed
\* root when the stack is then empty, and otherwise passes it to addChild of
\* the new top and leaves the root slot alone; after the last end tag the
\* stack is empty.
C2_EndTagStep ==
    EndStep =>
        /\ stack # <<>>
        /\ stack' = Front(stack)
        /\ Last(stack) = Last(open).node
        /\ getName(nodes[Last(stack)]) = Last(open).name
        /\ phase' = phase
        /\ IF stack' = <<>>
           THEN /\ rootNode' = finalize(nodes, Last(stack))
                /\ nodes' = WithFinalized(nodes, <<Last(stack)>>)
           ELSE /\ rootNode' = rootNode
                /\ nodes'[Last(stack')].children =
                       addChild(nodes, Last(stack'), Last(stack)).children
                /\ Last(nodes'[Last(stack')].children) = finalize(nodes, Last(stack))

C2_StackMirrorsOpen ==
    StaleFree =>
        /\ Len(stack) = Len(open)
        /\ \A i \in 1..Len(open) : stack[i] = open[i].node
        /\ rootDone => stack = <<>>

C2_EndTag == [][C2_EndTagStep]_vars /\ [](phase = "parsing" => C2_StackMirrorsOpen)

\* a document with a nested element was parsed to its end and its root,
\* holding the child, was handed out
C2_Witness ==
    /\ phase = "idle"
    /\ result.t = "node"
    /\ stack = <<>>
    /\ \E i \in 1..Len(nodes[result.id].children) :
          nodes[result.id].children[i].t = "node"

\* C3: no mixed content: whatever the kinds of the children added (a leaf
\* child counts as an element child, by the value it finalized to), the
\* children list of a node never holds character data together with an
\* element child; it is empty, or exactly one text run, or only element
\* children.
C3_NoMixedContent ==
    \A id \in 1..Len(nodes) :
        LET o == nodes[id].origin
        IN  \/ o = <<>>
            \/ o = <<"text">>
            \/ \A i \in 1..Len(o) : o[i] = "child"

(***************************************************************************)
(* Namespaces                                                              *)
(***************************************************************************)
\* the xmlns / xmlns:alias declarations of a raw attribute map
IsDecl(k) ==
    \/ k = Xmlns
    \/ Len(k) > Len(Xmlns) /\ SubSeq(k, 1, Len(Xmlns) + 1) = Xmlns \o <<Colon>>
DeclAlias(k) == IF k = Xmlns THEN None ELSE SubSeq(k, Len(Xmlns) + 2, Len(k))
Declared(attrs) ==
    [a \in {DeclAlias(k) : k \in {x \in DOMAIN attrs : IsDecl(x)}} |->
        attrs[CHOOSE k \in DOMAIN attrs : IsDecl(k) /\ DeclAlias(k) = a]]
\* the aliases a start tag uses: in its name, in its other attributes
AttrAliases(attrs) ==
    {splitNamespace(k)[1] : k \in {x \in DOMAIN attrs : ~IsDecl(x)}} \ {None}
UsedAliases(name, attrs) ==
    ({splitNamespace(name)[1]} \ {None}) \cup AttrAliases(attrs)
Override(base, over) ==
    [a \in (DOMAIN base) \cup (DOMAIN over) |->
        IF a \in DOMAIN over THEN over[a] ELSE base[a]]
\* the stack position of the node of the i-th open element, and the map of
\* the node below it (the stack top when the element started)
StackPos(i) == Len(stack) - Len(open) + i
ParentMap(i) ==
    IF StackPos(i) = 1 THEN EmptyMap
    ELSE NsMapOf(nodes, dicts, stack[StackPos(i) - 1])
\* the binding of xml that an attribute with the alias xml brings along
ImplicitXml(base, attrs) ==
    IF XmlAlias \in AttrAliases(attrs) /\ XmlAlias \notin DOMAIN base
    THEN [a \in {XmlAlias} |-> xmlBaseNamespace]
    ELSE EmptyMap

\* C4: the xmlns declarations of an element change the namespace map of no
\* other node: the maps of the parent, of the ancestors and of the sibling
\* subtrees are the same after every step as before it.
C4_ForeignMapsUnchanged ==
    [][\A id \in 1..Len(nodes) :
          id <= Len(nodes') =>
              NsMapOf(nodes', dicts', id) = NsMapOf(nodes, dicts, id)]_vars

\* an element with declarations of its own is open next to a finished
\* sibling, inside a parent that binds the alias differently
C4_Witness ==
    /\ Len(stack) >= 2
    /\ nodes[stack[Len(stack) - 1]].children # <<>>
    /\ \E a \in DOMAIN nodes[Last(stack)].nsAttributes :
          /\ a \in DOMAIN NsMapOf(nodes, dicts, stack[Len(stack) - 1])
          /\ NsMapOf(nodes, dicts, stack[Len(stack) - 1])[a]
                 # NsMapOf(nodes, dicts, Last(stack))[a]

\* C5 as claimed: at every start tag the namespace map of the new node
\* equals the map of the stack top at that moment (the empty map on an empty
\* stack) overridden by the xmlns declarations of the start tag.
C5_MapIsParentPlusDeclarations ==
    \A i \in 1..Len(open) :
        NsMapOf(nodes, dicts, open[i].node)
            = Override(ParentMap(i), Declared(open[i].attrs))

\* C5 as amended: the map of the new node equals the map of the stack top
\* overridden by the xmlns declarations of the start tag, and further binds
\* xml to the XML namespace when an attribute of the tag uses the alias xml
\* and neither the stack top nor the tag binds it.
C5_MapIsParentPlusDeclarationsPlusXml ==
    \A i \in 1..Len(open) :
        LET base == Override(ParentMap(i), Declared(open[i].attrs))
        IN  NsMapOf(nodes, dicts, open[i].node)
                = Override(base, ImplicitXml(base, open[i].attrs))

\* an open element redeclares an alias its parent binds, and keeps another
\* binding of its parent
C5_Witness ==
    /\ Len(open) >= 2
    /\ \E a \in DOMAIN Declared(Last(open).attrs) :
          /\ a \in DOMAIN ParentMap(Len(open))
          /\ ParentMap(Len(open))[a] # Declared(Last(open).attrs)[a]
    /\ \E a \in DOMAIN ParentMap(Len(open)) :
          a \notin DOMAIN Declared(Last(open).attrs)

\* C6: for every node on the stack or in a tree, the alias of its name and
\* the alias of each of its attribute keys, when there is one, is a key of
\* its namespace map, every local declaration is in the map with the same
\* URI, and neither getAbsoluteName nor the name lookup of the serialization
\* meets a missing alias.
C6_AliasesResolve ==
    \A id \in 1..Len(nodes) :
        LET n == nodes[id]
            m == NsMapOf(nodes, dicts, id)
        IN  /\ n.name[1] # None => n.name[1] \in DOMAIN m
            /\ \A key \in DOMAIN n.otherAttributes :
                  key[1] # None => key[1] \in DOMAIN m
            /\ \A a \in DOMAIN n.nsAttributes :
                  a \in DOMAIN m /\ m[a] = n.nsAttributes[a]
            /\ getAbsoluteName(m, n) # KeyError
            /\ GetName(m, n) # KeyError

\* a tree holds a node with an aliased name and a node with an aliased
\* attribute
C6_Witness ==
    /\ \E id \in 1..Len(nodes) : nodes[id].name[1] # None
    /\ \E id \in 1..Len(nodes) :
          \E key \in DOMAIN nodes[id].otherAttributes : key[1] # None

StartFails == phase = "parsing" /\ phase' = "idle" /\ result'.t = "exc"
SetNameFails == phase = "idle" /\ result.t = "node" /\ result'.t = "exc"

C7_PushedAliasesInScope ==
    \A i \in 1..Len(open) :
        UsedAliases(open[i].name, open[i].attrs)
            \subseteq (DOMAIN ParentMap(i))
                      \cup (DOMAIN Declared(open[i].attrs))
                      \cup (AttrAliases(open[i].attrs) \cap {XmlAlias})

Attached(id) ==
    \/ rootNode = NodeVal(id)
    \/ \E p \in 1..Len(nodes) :
          \E i \in 1..Len(nodes[p].children) : nodes[p].children[i] = NodeVal(id)

C8_EndTagStep ==
    (EndStep /\ mode = "streaming" /\ phase' = phase) =>
        LET elem == Last(stack)
        IN  IF WillYield(elem)
            THEN /\ generatedNodes' = Append(generatedNodes, finalize(nodes, elem))
                 /\ rootNode' = rootNode
                 /\ \A id \in 1..Len(nodes) :
                       /\ nodes'[id].children = nodes[id].children
                       /\ nodes'[id].fields = nodes[id].fields
            ELSE /\ generatedNodes' = generatedNodes
                 /\ IF stack' = <<>>
                    THEN rootNode' = finalize(nodes, elem)
                    ELSE /\ rootNode' = rootNode
                         /\ nodes'[Last(stack')].children
                               = addChild(nodes, Last(stack'), elem).children

\* C8: in the streaming handler the end tag of a yield-marked node appends
\* the finalized node to the queue and neither attaches it to the new stack
\* top nor stores it as the root, so no yield-marked node is ever a child or
\* the root; the end tag of any other node leaves the queue alone and
\* attaches or stores the node as the non-streaming handler does.
C8_YieldedNeverAttached ==
    /\ [][C8_EndTagStep]_vars
    /\ [](\A id \in 1..Len(nodes) : WillYield(id) => ~Attached(id))

\* a yield-marked node is queued while its parent is open and holds a
\* child that is not yield-marked
C8_Witness ==
    /\ mode = "streaming"
    /\ \E i \in 1..Len(generatedNodes) : generatedNodes[i].t = "node"
    /\ stack # <<>>
    /\ nodes[Last(stack)].children # <<>>

\* C9: when the iteration stops, the items handed to the consumer are the
\* finalized yield-marked elements, one for each closing tag and in the
\* order of the closing tags, and the queue is empty.
C9_YieldsEveryItemInOrder ==
    phase = "stopped" => (yielded = closed /\ generatedNodes = <<>>)

\* C10: next() reads from the stream only when the queue is empty, reads at
\* most BUFFER_SIZE bytes at a time, and signals the end only when the queue
\* is empty and the read returned no data.
C10_ReadsOnlyWhenDrained ==
    /\ phase = "read" => generatedNodes = <<>>
    /\ phase = "stopped" => (generatedNodes = <<>> /\ bufLen = 0)
    /\ bufLen <= BUFFER_SIZE

(***************************************************************************)
(* Functions of a node, of a top-level node and of the schema lookup,      *)
(* applied on their own.                                                   *)
(***************************************************************************)
\* the characters of the names in use, in the order of their code points
Alphabet ==
    <<" ", "+", "-", "/", "0", "1", "2", "3", "4", "5", "6", "7", "8", "9",
      ":", "L", "a", "b", "c", "d", "e", "f", "g", "h", "i", "j", "k", "l",
      "m", "n", "o", "p", "q", "r", "s", "t", "u", "v", "w", "x", "y", "z">>
Ord(c) == CHOOSE i \in 1..Len(Alphabet) : Alphabet[i] = c

\* a < b for two Python strings
RECURSIVE StrLess(_, _)
StrLess(a, b) ==
    IF b = <<>> THEN FALSE
    ELSE IF a = <<>> THEN TRUE
    ELSE IF Head(a) = Head(b) THEN StrLess(Tail(a), Tail(b))
    ELSE Ord(Head(a)) < Ord(Head(b))

\* a < b for two namespace aliases: None sorts before every string
AliasLess(a, b) ==
    /\ a # b
    /\ b # None
    /\ a = None \/ StrLess(a, b)

\* more values of Python: an attribute value, a namespace URI handed in as
\* an argument, a list, a dict
AttrVal(v) == [t |-> "attr", v |-> v]
UriVal(u) == [t |-> "uri", s |-> u]
ListVal(items) == [t |-> "list", items |-> items]
DictVal(m) == [t |-> "dict", m |-> m]

\* getAttribute
getAttribute(node, name, namespace) ==
    IF <<namespace, name>> \in DOMAIN node.otherAttributes
    THEN AttrVal(node.otherAttributes[<<namespace, name>>])
    ELSE NoneVal

\* the head of a sorted list of aliases, read from the wrong end
GreatestAlias(aliases) ==
    CHOOSE a \in aliases : \A b \in aliases : a = b \/ AliasLess(b, a)

\* the head of aliases.sort()
LeastAlias(aliases) ==
    CHOOSE a \in aliases : \A b \in aliases : a = b \/ AliasLess(a, b)

\* the loop of getAttributeByNamespace over the sorted aliases
RECURSIVE FirstAliasWith(_, _, _)
FirstAliasWith(aliases, node, name) ==
    IF aliases = {} THEN NoneVal
    ELSE IF <<LeastAlias(aliases), name>> \in DOMAIN node.otherAttributes
    THEN AttrVal(node.otherAttributes[<<LeastAlias(aliases), name>>])
    ELSE FirstAliasWith(aliases \ {LeastAlias(aliases)}, node, name)

\* getAttributeByNamespace of a node whose dict holds m; namespace is
\* NoneVal or UriVal(uri)
getAttributeByNamespace(m, node, name, namespace) ==
    IF namespace = NoneVal
    THEN getAttribute(node, name, None)
    ELSE FirstAliasWith({a \in DOMAIN m : m[a] = namespace.s}, node, name)

\* orderItems: sorted() is stable, so an item goes after the items whose
\* key is smaller and the items before it whose key is equal; the key is
\* (name not in order, index in order or None, name); x.getName() fails on
\* an item that is no node
OrderIndex(order, n) ==
    IF \E i \in 1..Len(order) : order[i] = n
    THEN CHOOSE i \in 1..Len(order) :
             order[i] = n /\ \A j \in (i + 1)..Len(order) : order[j] # n
    ELSE 0 - 1
ItemKey(ns, order, x) ==
    <<OrderIndex(order, getName(ns[x.id])) < 0,
      OrderIndex(order, getName(ns[x.id])),
      getName(ns[x.id])>>
KeyLess(k1, k2) ==
    \/ ~k1[1] /\ k2[1]
    \/ /\ k1[1] = k2[1]
       /\ \/ k1[2] < k2[2]
          \/ k1[2] = k2[2] /\ StrLess(k1[3], k2[3])
SortedPos(ns, order, items, i) ==
    1 + Cardinality({j \in 1..Len(items) :
            \/ KeyLess(ItemKey(ns, order, items[j]), ItemKey(ns, order, items[i]))
            \/ /\ j < i
               /\ ~KeyLess(ItemKey(ns, order, items[i]),
                           ItemKey(ns, order, items[j]))})
orderItems(ns, items, order) ==
    IF \E i \in 1..Len(items) : items[i].t # "node"
    THEN Exc("AttributeError")
    ELSE ListVal([p \in 1..Len(items) |->
             items[CHOOSE i \in 1..Len(items) :
                       SortedPos(ns, order, items, i) = p]])

\* iterChildren of node number id
iterChildren(ns, id) ==
    IF ClassTable[ns[id].cls].childOrder # None
    THEN orderItems(ns, ns[id].children, ClassTable[ns[id].cls].childOrder)
    ELSE ListVal(ns[id].children)

\* getChildren of node number id: the children that iterChildren gives
\* which have getName and whose name is the tag asked for
getChildren(ns, id, name, namespace) ==
    LET it == iterChildren(ns, id)
        tagName == unsplitNamespace(name, namespace)
        named(x) == x.t = "node" /\ getName(ns[x.id]) = tagName
    IN  IF it.t = "exc" THEN it ELSE ListVal(SelectSeq(it.items, named))

\* ToplevelNode.getAttributesByNamespace on the raw attributes attrs: the
\* dicts it can return.  nsMap maps each URI to the alias of the declaration
\* of it that the loop over attrs.items() meets last, and the order of
\* that loop is the dict's, so any declaration of the URI can be the one.
TopOtherAttrs(attrs, alias) ==
    LET keys == {k \in DOMAIN attrs :
                    Split1(k)[1] # Xmlns /\ splitNamespace(k)[1] = alias}
    IN  [n \in {splitNamespace(k)[2] : k \in keys} |->
            attrs[CHOOSE k \in keys : splitNamespace(k)[2] = n]]
getAttributesByNamespace(attrs, namespace) ==
    LET decls == {k \in DOMAIN attrs :
                     Split1(k)[1] = Xmlns /\ attrs[k] = namespace}
    IN  IF decls = {} THEN {EmptyMap}
        ELSE {TopOtherAttrs(attrs, IF Len(Split1(k)) = 1 THEN None
                                   ELSE Split1(k)[2]) : k \in decls}

xmlSchemaNamespace == "http://www.w3.org/2001/XMLSchema-instance"
SchemaLocation ==
    <<"s", "c", "h", "e", "m", "a", "L", "o", "c", "a", "t", "i", "o", "n">>

\* str.split(): the words between runs of white space
RECURSIVE SplitWords(_)
SplitWords(s) ==
    IF s = <<>> THEN <<>>
    ELSE IF Head(s) \in WhiteSpace THEN SplitWords(Tail(s))
    ELSE LET n == IF \E i \in 1..Len(s) : s[i] \in WhiteSpace
                  THEN (CHOOSE i \in 1..Len(s) :
                            /\ s[i] \in WhiteSpace
                            /\ \A j \in 1..(i - 1) : s[j] \notin WhiteSpace) - 1
                  ELSE Len(s)
         IN  <<SubSeq(s, 1, n)>> \o SplitWords(SubSeq(s, n + 1, Len(s)))

\* os.path.basename: what follows the last slash
basename(path) ==
    IF \E i \in 1..Len(path) : path[i] = "/"
    THEN SubSeq(path,
                1 + CHOOSE i \in 1..Len(path) :
                        path[i] = "/" /\ \A j \in (i + 1)..Len(path) : path[j] # "/",
                Len(path))
    ELSE path

\* os.path.join of a directory and a name
pathJoin(dir, name) ==
    IF name # <<>> /\ Head(name) = "/" THEN name
    ELSE IF dir = <<>> \/ Last(dir) = "/" THEN dir \o name
    ELSE dir \o <<"/">> \o name

\* getSchemaLocationsFromStream after ToplevelNode read tn: what it can
\* return or raise
getSchemaLocationsFromStream(tn) ==
    IF tn.name = None THEN {Exc("InvalidXML")}
    ELSE {IF SchemaLocation \notin DOMAIN attrs
          THEN Exc("UnknownSchemaError")
          ELSE ListVal([i \in 1..Len(SplitWords(attrs[SchemaLocation])) |->
                           basename(SplitWords(attrs[SchemaLocation])[i])])
            : attrs \in getAttributesByNamespace(tn.attrs, xmlSchemaNamespace)}

\* the loop of chooseSchemaFile read from the wrong end
LastPresent(schemaFiles, possibleSchema) ==
    schemaFiles[CHOOSE i \in 1..Len(schemaFiles) :
                    /\ schemaFiles[i] \in possibleSchema
                    /\ \A j \in (i + 1)..Len(schemaFiles) :
                          schemaFiles[j] \notin possibleSchema]

\* for sch in schemaFiles: if sch in possibleSchema: return it
RECURSIVE FirstPresent(_, _)
FirstPresent(schemaFiles, possibleSchema) ==
    IF Head(schemaFiles) \in possibleSchema THEN Head(schemaFiles)
    ELSE FirstPresent(Tail(schemaFiles), possibleSchema)

\* chooseSchemaFile; fs maps each directory that exists to what
\* os.listdir gives for it
chooseSchemaFile(schemaFiles, schemaDir, fs) ==
    IF schemaDir = None THEN Exc("UnknownSchemaError")
    ELSE IF schemaDir \notin DOMAIN fs THEN Exc("UnknownSchemaError")
    ELSE IF {schemaFiles[i] : i \in 1..Len(schemaFiles)} \cap fs[schemaDir] = {}
    THEN Exc("UnknownSchemaError")
    ELSE StrVal(pathJoin(schemaDir,
             FirstPresent(schemaFiles,
                 {schemaFiles[i] : i \in 1..Len(schemaFiles)} \cap fs[schemaDir])))

\* a node object as a parse leaves it, for the heap a function is applied to
FnNode(name, cls, children, nsAttributes, otherAttributes) ==
    [name |-> name, children |-> children, nsMap |-> 1,
     nsAttributes |-> nsAttributes, otherAttributes |-> otherAttributes,
     fields |-> EmptyMap, cls |-> cls, call |-> 0,
     origin |-> [i \in 1..Len(children) |->
                    IF children[i].t = "unicode" THEN "text" ELSE "child"],
     finalized |-> 0]

\* the raw attribute maps over some declaration keys, each with a URI of
\* uris as its value, and some other keys, each with itself as its value
RawMaps(declKeys, uris, attrKeys) ==
    UNION { UNION { { [k \in D \cup As |-> IF k \in D THEN f[k] ELSE k]
                        : f \in [D -> uris] }
                    : As \in SUBSET attrKeys }
            : D \in SUBSET declKeys }

XmlnsY == <<"x", "m", "l", "n", "s", ":", "y">>
AttrK == <<"k">>
AttrYK == <<"y", ":", "k">>
AttrYJ == <<"y", ":", "j">>
AttrXSchemaLocation == <<"x", ":">> \o SchemaLocation
AttrYSchemaLocation == <<"y", ":">> \o SchemaLocation

\* the text of an integer leaf: up to MaxText characters
IntChars == {"4", "2", "a", "-", " "}
IntTexts == UNION { [1..n -> IntChars] : n \in 1..MaxText }
IntInputs ==
    { [fn |-> "finalize", arg |-> <<>>,
       nodes |-> <<FnNode(<<None, <<"i", "n", "t">>>>, "IntegerNode", ch,
                          EmptyMap, oa)>>,
       dicts |-> <<EmptyMap>>]
        : ch \in {<<>>} \cup {<<UnicodeVal(t)>> : t \in IntTexts},
          oa \in {EmptyMap, [key \in {<<None, AttrK>>} |-> "7"]} }

\* the children of a node with or without _childOrder: up to MaxNodes - 1
\* of them, nodes named a, b, c or d, the last one possibly the value
\* of a string leaf instead
OrderNames == {<<"a">>, <<"b">>, <<"c">>, <<"d">>}
LeafMark == <<"#">>
OrderChildren ==
    { c \in UNION { [1..n -> OrderNames \cup {LeafMark}] : n \in 0..(MaxNodes - 1) } :
          \A i \in 1..(Len(c) - 1) : c[i] # LeafMark }
OrderHeap(cls, c) ==
    <<FnNode(<<None, <<"o">>>>, cls,
             [i \in 1..Len(c) |-> IF c[i] = LeafMark THEN UnicodeVal(<<"h">>)
                                  ELSE NodeVal(i + 1)],
             EmptyMap, EmptyMap)>>
    \o [i \in 1..Len(c) |->
           FnNode(<<None, c[i]>>, "GenericNode", <<>>, EmptyMap, EmptyMap)]
OrderInputs ==
    { [fn |-> "iterChildren", arg |-> <<>>, nodes |-> OrderHeap(cls, c),
       dicts |-> <<EmptyMap>>]
        : cls \in {"OrderedNode", "GenericNode"}, c \in OrderChildren }

\* the same nodes asked for their children of one name
ChildrenInputs ==
    { [fn |-> "getChildren", arg |-> [name |-> <<"a">>, namespace |-> None],
       nodes |-> OrderHeap(cls, c), dicts |-> <<EmptyMap>>]
        : cls \in {"OrderedNode", "GenericNode"},
          c \in {d \in OrderChildren :
                    \A i \in 1..Len(d) : d[i] \in {<<"a">>, <<"b">>, LeafMark}} }

\* a node built from its parent's namespace map and its raw attributes,
\* and the attribute asked for
AttrParentMaps ==
    {EmptyMap, A(<<"x">>, "u"), A(None, "u"), A(<<"y">>, "w")}
AttrRawMaps == RawMaps({Xmlns, XmlnsX, XmlnsY}, {"u", "w"}, {AttrK, AttrXK, AttrYK})
AttrInputs ==
    { [fn |-> "getAttributeByNamespace",
       arg |-> [name |-> AttrK, namespace |-> ns],
       nodes |-> <<FnNode(<<None, TagA>>, "GenericNode", <<>>,
                          SetAttributes(e[1], e[2]).nsAttributes,
                          SetAttributes(e[1], e[2]).otherAttributes)>>,
       dicts |-> <<SetAttributes(e[1], e[2]).nsMap>>]
        : e \in {x \in AttrParentMaps \X AttrRawMaps :
                    SetAttributes(x[1], x[2]).ok},
          ns \in {NoneVal, UriVal("u"), UriVal("w")} }

\* the raw attributes of a document element, and the URI asked for
TopInputs ==
    { [fn |-> "getAttributesByNamespace",
       arg |-> [attrs |-> raw, namespace |-> uri],
       nodes |-> <<>>, dicts |-> <<>>]
        : raw \in RawMaps({Xmlns, XmlnsX, XmlnsY}, {"u", "w"},
                          {AttrK, AttrXK, AttrYJ}),
          uri \in {"u", "w"} }

\* what ToplevelNode read: no element, or the document element
SniffAttrs ==
    { [k \in DOMAIN m |->
          IF k \in {AttrXSchemaLocation, AttrYSchemaLocation}
          THEN <<"u", " ", "d", "/", "f", " ", "g">> ELSE m[k]]
        : m \in RawMaps({XmlnsX, XmlnsY}, {xmlSchemaNamespace, "u"},
                        {AttrXSchemaLocation, AttrYSchemaLocation}) }
SniffInputs ==
    { [fn |-> "getSchemaLocationsFromStream", arg |-> [tn |-> tn],
       nodes |-> <<>>, dicts |-> <<>>]
        : tn \in {[name |-> None, attrs |-> EmptyMap]}
                 \cup {[name |-> TagA, attrs |-> m] : m \in SniffAttrs} }

\* candidate schema files, the directory argument, and the directories
\* that exist with their listings
ChooseInputs ==
    { [fn |-> "chooseSchemaFile",
       arg |-> [schemaFiles |-> sf, schemaDir |-> dir, fs |-> A(<<"d">>, ls)],
       nodes |-> <<>>, dicts |-> <<>>]
        : sf \in UNION { [1..n -> {<<"f">>, <<"g">>}] : n \in 0..2 },
          dir \in {None, <<"d">>, <<"m">>},
          ls \in SUBSET {<<"f">>, <<"g">>, <<"h">>} }

\* an element of a document: its raw tag, its raw attributes and its child
\* elements
Elem(tag, attrs, children) ==
    [tag |-> tag, attrs |-> attrs, children |-> children]

\* the tree of generic nodes that the handler builds from the element doc
\* whose parent has the namespace map pm: startElement makes the node from
\* a copy of pm and the attributes and names it, endElement adds it to its
\* parent
RECURSIVE parseElement(_, _)
parseElement(doc, pm) ==
    LET sa == SetAttributes(pm, doc.attrs)
        sn == SetName(sa.nsMap, <<None, None>>, doc.tag)
        kids == [i \in 1..Len(doc.children) |->
                    parseElement(doc.children[i], sa.nsMap)]
    IN  [t |-> "tree", cls |-> "GenericNode",
         ok |-> sa.ok /\ sn.ok /\ \A i \in 1..Len(kids) : kids[i].ok,
         name |-> sn.name, nsMap |-> sa.nsMap,
         nsAttributes |-> sa.nsAttributes,
         otherAttributes |-> sa.otherAttributes,
         children |-> kids]

\* the URI of a name without namespace
NoUri == ""

\* _getName and _buildElementTreeName: the name handed to the element
\* tree, {uri}local with the URI that the alias is bound to, the alias
\* itself left out
buildElementTreeName(m, name, namespace) ==
    IF namespace = None THEN [uri |-> NoUri, local |-> name]
    ELSE [uri |-> m[namespace], local |-> name]

\* str() of an integer
DigitChar(d) == CHOOSE c \in DOMAIN DigitVal : DigitVal[c] = d
RECURSIVE DecString(_)
DecString(n) ==
    IF n < 0 THEN <<"-">> \o DecString(0 - n)
    ELSE IF n < 10 THEN <<DigitChar(n)>>
    ELSE Append(DecString(n \div 10), DigitChar(n % 10))

\* _iterChildren of a tree node: iterChildren for a generic node, and for
\* the leaf classes the string of the finalized value (nothing for Null)
treeIterChildren(node) ==
    LET kind == ClassTable[node.cls].kind
        v == finalize(<<node>>, 1)
    IN  CASE kind = "Generic" -> node.children
          [] kind = "String"  -> <<v>>
          [] kind = "Null"    -> <<>>
          [] kind = "Integer" -> <<StrVal(DecString(v.n))>>
          [] kind = "Boolean" -> <<StrVal(toString(v))>>

\* the text that getElementTree leaves in elem.text: the last string among
\* the children it iterates over
ElementText(items) ==
    LET idx == {i \in 1..Len(items) : items[i].t \in {"str", "unicode"}}
    IN  IF idx = {} THEN NoneVal
        ELSE StrVal(items[CHOOSE i \in idx : \A k \in idx : k <= i].s)

\* getElementTree: the element made from the name, the attributes and the
\* local namespaces of the node, with the elements of the children that
\* have a getElementTree and the text of those that are strings
RECURSIVE getElementTree(_)
getElementTree(node) ==
    [tag |-> buildElementTreeName(node.nsMap, node.name[2], node.name[1]),
     attrib |-> [k \in DOMAIN node.otherAttributes |->
                    [name |-> buildElementTreeName(node.nsMap, k[2], k[1]),
                     value |-> node.otherAttributes[k]]],
     nsmap |-> node.nsAttributes,
     text |-> ElementText(treeIterChildren(node)),
     children |-> [i \in 1..Len(SelectSeq(treeIterChildren(node),
                                          LAMBDA c : c.t = "tree")) |->
                      getElementTree(SelectSeq(treeIterChildren(node),
                                               LAMBDA c : c.t = "tree")[i])]]

\* the prefix the serializer writes for a name in the namespace uri: of the
\* declarations in scope, the nearest element's first, those that bind an
\* alias to uri; the default binding serves elements only and comes after
\* the aliases; among aliases the order is that of a dict, here the least
\* or the greatest as pick says
PrefixesAt(nsmap, uri, isAttr) ==
    {a \in DOMAIN nsmap : nsmap[a] = uri /\ ~(isAttr /\ a = None)}
PickAlias(as, pick) ==
    IF as = {None} THEN None
    ELSE IF pick = "least" THEN LeastAlias(as \ {None})
    ELSE GreatestAlias(as \ {None})
RECURSIVE PrefixFor(_, _, _, _)
PrefixFor(chain, uri, isAttr, pick) ==
    IF chain = <<>> THEN None
    ELSE IF PrefixesAt(Head(chain), uri, isAttr) # {}
    THEN PickAlias(PrefixesAt(Head(chain), uri, isAttr), pick)
    ELSE PrefixFor(Tail(chain), uri, isAttr, pick)
WrittenName(chain, n, isAttr, pick) ==
    IF n.uri = NoUri THEN n.local
    ELSE unsplitNamespace(n.local, PrefixFor(chain, n.uri, isAttr, pick))
DeclKey(a) == IF a = None THEN Xmlns ELSE Xmlns \o <<Colon>> \o a

\* etree.tostring read back by the tokenizer: the element el written under
\* the declarations chain of its ancestors, nearest first
RECURSIVE writeElement(_, _, _)
writeElement(el, chain, pick) ==
    LET scope == <<el.nsmap>> \o chain
        attrKey(k) == WrittenName(scope, el.attrib[k].name, TRUE, pick)
        keys == {DeclKey(a) : a \in DOMAIN el.nsmap}
                \cup {attrKey(k) : k \in DOMAIN el.attrib}
    IN  Elem(WrittenName(scope, el.tag, FALSE, pick),
             [key \in keys |->
                 IF \E a \in DOMAIN el.nsmap : DeclKey(a) = key
                 THEN el.nsmap[CHOOSE a \in DOMAIN el.nsmap : DeclKey(a) = key]
                 ELSE el.attrib[CHOOSE k \in DOMAIN el.attrib :
                                    attrKey(k) = key].value],
             [i \in 1..Len(el.children) |->
                 writeElement(el.children[i], scope, pick)])

\* parse, toXml, parse again
roundTrip(doc, pick) ==
    LET first == parseElement(doc, EmptyMap)
        xml == writeElement(getElementTree(first), <<>>, pick)
    IN  [t |-> "trip", first |-> first, xml |-> xml,
         second |-> parseElement(xml, EmptyMap)]

\* documents for the round trip: a root a or x:a with declarations and
\* attributes, and up to MaxNodes - 1 children b, x:b or y:b, the last kind
\* also with a declaration of its own; only those that parse
TagB == <<"b">>
TagXB == <<"x", ":", "b">>
TagYB == <<"y", ":", "b">>
TripChildren ==
    { Elem(TagB, EmptyMap, <<>>), Elem(TagXB, EmptyMap, <<>>),
      Elem(TagYB, EmptyMap, <<>>), Elem(TagYB, A(XmlnsY, "u"), <<>>) }
TripDocs ==
    { d \in { Elem(tag, attrs, ch)
                : tag \in {TagA, TagXA},
                  attrs \in RawMaps({Xmlns, XmlnsX, XmlnsY}, {"u", "w"},
                                    {AttrK, AttrXK}),
                  ch \in UNION { [1..n -> TripChildren]
                                   : n \in 0..(MaxNodes - 1) } } :
          parseElement(d, EmptyMap).ok }
TripInputs ==
    { [fn |-> "roundTrip", arg |-> [doc |-> d, pick |-> pk],
       nodes |-> <<>>, dicts |-> <<>>]
        : d \in TripDocs, pk \in {"least", "greatest"} }

\* texts for fromString: spellings of true and 1 in either case and with
\* white space around, near misses, and every text up to MaxText over
\* 1, t and blank; and the two booleans for toString
BoolWords ==
    { <<"t", "r", "u", "e">>, <<"T", "R", "U", "E">>, <<"T", "r", "u", "e">>,
      <<" ", "t", "r", "u", "e", "\n">>, <<"\t", "1", " ">>,
      <<"f", "a", "l", "s", "e">>, <<"0">>, <<"t", "r", "u">>,
      <<"t", "r", "u", "e", "1">>, <<"t", " ", "r", "u", "e">>,
      <<"1", "1">>, <<"y", "e", "s">> }
BoolTexts ==
    BoolWords \cup UNION { [1..n -> {"1", "t", " "}] : n \in 0..MaxText }
BoolInputs ==
    { [fn |-> "fromString", arg |-> v, nodes |-> <<>>, dicts |-> <<>>]
        : v \in {StrVal(t) : t \in BoolTexts} \cup {BoolVal(b) : b \in BOOLEAN} }
    \cup { [fn |-> "toString", arg |-> BoolVal(b), nodes |-> <<>>,
            dicts |-> <<>>] : b \in BOOLEAN }

\* NodeDispatcher.registerType on the registry d of a dispatcher with the
\* namespace map m; the node classes have no getTag, so without a name
\* nothing is registered
dispatcherRegisterType(m, d, typeClass, name, namespace) ==
    IF name = None THEN d
    ELSE Put(d, Braced(IF namespace \in DOMAIN m THEN m[namespace] ELSE "",
                       name),
             typeClass)

\* NodeDispatcher.dispatch of a node whose namespace map is nm
dispatch(d, nm, node) ==
    IF getAbsoluteName(nm, node) \notin DOMAIN d THEN NoneVal
    ELSE [t |-> "instance", cls |-> d[getAbsoluteName(nm, node)]]

\* a dispatcher with a namespace map, one registration, and a node with
\* its own namespace map in which its alias is bound
DispatchMaps == {EmptyMap, A(None, "u"), A(<<"x">>, "u"), A(<<"x">>, "w")}
DispatchInputs ==
    { [fn |-> "dispatch",
       arg |-> [nsMap |-> m, name |-> name, namespace |-> ns],
       nodes |-> <<FnNode(nn, "GenericNode", <<>>, EmptyMap, EmptyMap)>>,
       dicts |-> <<nm>>]
        : m \in DispatchMaps, name \in {TagA, None}, ns \in {None, <<"x">>},
          nn \in {<<None, TagA>>, <<<<"x">>, TagA>>, <<None, <<"b">>>>},
          nm \in DispatchMaps }

\* local names without colon and aliases (None or any string) for
\* unsplitNamespace, and tags for splitNamespace
SplitLocals == UNION { [1..n -> {"a", "b"}] : n \in 0..MaxText }
SplitAliases == {None} \cup UNION { [1..n -> {"x", Colon}] : n \in 0..MaxText }
SplitTags == UNION { [1..n -> {"a", Colon}] : n \in 0..(MaxText + 1) }
SplitInputs ==
    { [fn |-> "splitUnsplit", arg |-> [name |-> n, namespace |-> a],
       nodes |-> <<>>, dicts |-> <<>>] : n \in SplitLocals, a \in SplitAliases }
    \cup { [fn |-> "unsplitSplit", arg |-> [tag |-> t],
            nodes |-> <<>>, dicts |-> <<>>] : t \in SplitTags }

\* objects serialized from their slots: obj.slots is __slots__ in order and
\* obj.fields the value of each. A plain list has no getElementTree, a
\* SerializableList ("slist") has one, a float is neither scalar nor tree
SerializableList(tag, items) == [t |-> "slist", tag |-> tag, items |-> items]
FloatVal == [t |-> "float"]
hasGetElementTree(v) == v.t \in {"tree", "slist", "slots"}

\* _splitData: the slots in order; a bool, int or string goes to attrs, None
\* is skipped, a list goes to the children as it is, anything else goes to
\* the children if it has a getElementTree and raises XmlLibError if not
RECURSIVE splitData(_, _)
splitData(slots, fields) ==
    IF slots = <<>> THEN [ok |-> TRUE, attrs |-> EmptyMap, children |-> <<>>]
    ELSE LET fVal == fields[Head(slots)]
             rest == splitData(Tail(slots), fields)
         IN  IF fVal.t \in {"bool", "int", "str", "unicode"}
             THEN [rest EXCEPT !.attrs = Put(rest.attrs, Head(slots), fVal)]
             ELSE IF fVal = NoneVal THEN rest
             ELSE IF fVal.t \in {"list", "slist"}
             THEN [rest EXCEPT !.children = <<fVal>> \o rest.children]
             ELSE IF ~hasGetElementTree(fVal)
             THEN [ok |-> FALSE, attrs |-> EmptyMap, children |-> <<>>]
             ELSE [rest EXCEPT !.children = <<fVal>> \o rest.children]

\* _splitData of api1, which has no branch for lists
RECURSIVE splitDataApi1(_, _)
splitDataApi1(slots, fields) ==
    IF slots = <<>> THEN [ok |-> TRUE, attrs |-> EmptyMap, children |-> <<>>]
    ELSE LET fVal == fields[Head(slots)]
             rest == splitDataApi1(Tail(slots), fields)
         IN  IF fVal.t \in {"bool", "int", "str", "unicode"}
             THEN [rest EXCEPT !.attrs = Put(rest.attrs, Head(slots), fVal)]
             ELSE IF fVal = NoneVal THEN rest
             ELSE IF ~hasGetElementTree(fVal)
             THEN [ok |-> FALSE, attrs |-> EmptyMap, children |-> <<>>]
             ELSE [rest EXCEPT !.children = <<fVal>> \o rest.children]

\* the attribute value getElementTree writes
attrString(attrVal) ==
    IF attrVal.t = "bool" THEN toString(attrVal)
    ELSE IF attrVal.t = "int" THEN DecString(attrVal.n)
    ELSE attrVal.s

\* SerializableObject.getElementTree on a slot-based object with the
\* (attrs, children) of _splitData: split.ok false is the XmlLibError; a
\* child with getElementTree gives an element, a string the text, any other
\* child nothing
slotElementTree(tag, split) ==
    IF ~split.ok THEN [raised |-> "XmlLibError"]
    ELSE [raised |-> "",
          tag |-> tag,
          attrib |-> [k \in DOMAIN split.attrs |-> attrString(split.attrs[k])],
          text |-> ElementText(split.children),
          children |->
              [i \in 1..Len(SelectSeq(split.children, hasGetElementTree)) |->
                  LET child == SelectSeq(split.children, hasGetElementTree)[i]
                  IN  IF child.t = "tree" THEN getElementTree(child)
                      ELSE [tag |-> child.tag,
                            children |->
                                [j \in 1..Len(child.items) |->
                                    getElementTree(child.items[j])]]]]

\* nodes with and without alias, under namespace maps with and without a
\* default namespace, for _getName
NameInputs ==
    { [fn |-> "_getName", arg |-> <<>>,
       nodes |-> <<FnNode(nn, "GenericNode", <<>>, EmptyMap, EmptyMap)>>,
       dicts |-> <<nm>>]
        : nn \in {<<None, TagA>>, <<<<"x">>, TagA>>},
          nm \in DispatchMaps \cup {(None :> "u") @@ (<<"x">> :> "w")} }

\* leaf nodes made by hand for serialization: a node of a leaf class with
\* raw attributes, and as its children nothing, a text or an element
LeafTexts == { <<"4", "2">>, <<"-", "4">>, <<"t", "r", "u", "e">>, <<"h">> }
LeafRawAttrs ==
    { EmptyMap, A(AttrK, "7"), A(XmlnsX, "u"),
      (XmlnsX :> "u") @@ (AttrXK :> "7") }
LeafNode(cls, attrs, children) ==
    [t |-> "tree", cls |-> cls, ok |-> TRUE,
     name |-> <<None, ClassTable[cls].defaultName>>,
     nsMap |-> SetAttributes(EmptyMap, attrs).nsMap,
     nsAttributes |-> SetAttributes(EmptyMap, attrs).nsAttributes,
     otherAttributes |-> SetAttributes(EmptyMap, attrs).otherAttributes,
     children |-> children]
LeafInputs ==
    { [fn |-> "getElementTree", arg |-> LeafNode(cls, attrs, ch),
       nodes |-> <<>>, dicts |-> <<>>]
        : cls \in {"IntegerNode", "StringNode", "BooleanNode", "NullNode"},
          attrs \in LeafRawAttrs,
          ch \in {<<>>, <<parseElement(Elem(TagA, EmptyMap, <<>>), EmptyMap)>>}
                 \cup {<<UnicodeVal(t)>> : t \in LeafTexts} }

\* a generic node as a parse leaves it: each child element was handed to
\* addChild, which stored its finalized value, the node itself for a
\* generic child and the value for a child of a leaf class
storedChild(child) ==
    IF ClassTable[child.cls].kind = "Generic" THEN child
    ELSE finalize(<<child>>, 1)
ParentKids ==
    { LeafNode("IntegerNode", EmptyMap, <<UnicodeVal(<<"4", "2">>)>>),
      LeafNode("BooleanNode", EmptyMap, <<UnicodeVal(<<"t", "r", "u", "e">>)>>),
      LeafNode("StringNode", EmptyMap, <<UnicodeVal(<<"h">>)>>),
      LeafNode("NullNode", EmptyMap, <<>>),
      parseElement(Elem(TagA, EmptyMap, <<>>), EmptyMap) }
ParentNode(kids) ==
    [LeafNode("GenericNode", EmptyMap,
              [i \in 1..Len(kids) |-> storedChild(kids[i])])
        EXCEPT !.name = <<None, <<"p">>>>]
ParentInputs ==
    { [fn |-> "BaseNode.getElementTree",
       arg |-> [node |-> ParentNode(kids), kids |-> kids],
       nodes |-> <<>>, dicts |-> <<>>]
        : kids \in UNION { [1..n -> ParentKids] : n \in 0..(MaxNodes - 1) } }

SlotNames == <<"f", "g">>
SlotChild == LeafNode("StringNode", EmptyMap, <<UnicodeVal(<<"t">>)>>)
SlotValues ==
    {BoolVal(TRUE), BoolVal(FALSE), IntVal(12), IntVal(0 - 3),
     StrVal(<<"t">>), NoneVal, SlotChild,
     SerializableList(TagB, <<SlotChild>>), ListVal(<<>>),
     ListVal(<<SlotChild>>), FloatVal}
SlotInputs ==
    { [fn |-> impl, arg |-> [slots |-> SlotNames, fields |-> fs, tag |-> TagA],
       nodes |-> <<>>, dicts |-> <<>>]
        : impl \in {"_splitData", "_splitDataApi1"},
          fs \in [{"f", "g"} -> SlotValues] }

\* start tags of a document element, with the alias xml in the name or in
\* an attribute, declared or not
TagXmlA == <<"x", "m", "l", ":", "a">>
XmlnsXml == Xmlns \o <<":">> \o XmlAlias
StartInputs ==
    { [fn |-> "startElement", arg |-> [name |-> name, attrs |-> attrs],
       nodes |-> <<>>, dicts |-> <<>>]
        : name \in {TagA, TagXmlA},
          attrs \in {EmptyMap, A(AttrXmlK, "v"), A(XmlnsXml, "u"),
                     (XmlnsXml :> "u") @@ (AttrXmlK :> "v"),
                     A(XmlnsX, "u")} }

FnInputs ==
    IntInputs \cup OrderInputs \cup ChildrenInputs \cup AttrInputs \cup TopInputs
    \cup SniffInputs \cup ChooseInputs \cup TripInputs \cup BoolInputs
    \cup LeafInputs \cup SplitInputs \cup SlotInputs \cup StartInputs
    \cup ParentInputs
    \cup {i \in NameInputs :
              i.nodes[1].name[1] = None \/ i.nodes[1].name[1] \in DOMAIN i.dicts[1]}
    \cup {i \in DispatchInputs :
              i.nodes[1].name[1] = None \/ i.nodes[1].name[1] \in DOMAIN i.dicts[1]}

InitFn ==
    /\ mode = "fn"
    /\ typeDict = EmptyMap
    /\ \E i \in FnInputs :
          /\ input = [fn |-> i.fn, arg |-> i.arg]
          /\ nodes = i.nodes
          /\ dicts = i.dicts
    /\ stack = <<>>
    /\ rootNode = NoneVal
    /\ generatedNodes = <<>>
    /\ phase = "idle"
    /\ open = <<>>
    /\ rootDone = FALSE
    /\ call = 0
    /\ started = FALSE
    /\ docRoot = 0
    /\ result = NoneVal
    /\ yielded = <<>>
    /\ closed = <<>>
    /\ bufLen = 0
    /\ pos = 0
    /\ origPos = 0
    /\ caller = NoCaller
    /\ output = NoneVal

\* everything but what a function returns
fnFrame ==
    <<mode, typeDict, nodes, dicts, stack, rootNode, generatedNodes, open,
      rootDone, call, started, docRoot, result, yielded, closed, bufLen,
      pos, origPos, caller, input>>

\* the handler finalizes the leaf
ApplyFinalize ==
    /\ mode = "fn"
    /\ input.fn = "finalize"
    /\ output' = finalize(nodes, 1)
    /\ phase' = "returned"
    /\ UNCHANGED fnFrame

\* a caller iterates over the children of the node
ApplyIterChildren ==
    /\ mode = "fn"
    /\ input.fn = "iterChildren"
    /\ output' = iterChildren(nodes, 1)
    /\ phase' = "returned"
    /\ UNCHANGED fnFrame

\* a caller asks the node for its children of one name
ApplyGetChildren ==
    /\ mode = "fn"
    /\ input.fn = "getChildren"
    /\ output' = getChildren(nodes, 1, input.arg.name, input.arg.namespace)
    /\ phase' = "returned"
    /\ UNCHANGED fnFrame

\* a caller asks the node for an attribute by its namespace
ApplyGetAttributeByNamespace ==
    /\ mode = "fn"
    /\ input.fn = "getAttributeByNamespace"
    /\ output' = getAttributeByNamespace(dicts[nodes[1].nsMap], nodes[1],
                                       input.arg.name, input.arg.namespace)
    /\ phase' = "returned"
    /\ UNCHANGED fnFrame

\* a caller asks the top-level node for the attributes of a namespace
ApplyGetAttributesByNamespace ==
    /\ mode = "fn"
    /\ input.fn = "getAttributesByNamespace"
    /\ \E r \in getAttributesByNamespace(input.arg.attrs,
                                         input.arg.namespace) :
          output' = DictVal(r)
    /\ phase' = "returned"
    /\ UNCHANGED fnFrame

\* validate asks for the schema locations of the stream
ApplyGetSchemaLocations ==
    /\ mode = "fn"
    /\ input.fn = "getSchemaLocationsFromStream"
    /\ \E r \in getSchemaLocationsFromStream(input.arg.tn) :
          output' = r
    /\ phase' = "returned"
    /\ UNCHANGED fnFrame

\* validate chooses the schema file
ApplyChooseSchemaFile ==
    /\ mode = "fn"
    /\ input.fn = "chooseSchemaFile"
    /\ output' = chooseSchemaFile(input.arg.schemaFiles, input.arg.schemaDir,
                                input.arg.fs)
    /\ phase' = "returned"
    /\ UNCHANGED fnFrame

ApplyRoundTrip ==
    /\ mode = "fn"
    /\ input.fn = "roundTrip"
    /\ output' = roundTrip(input.arg.doc, input.arg.pick)
    /\ phase' = "returned"
    /\ UNCHANGED fnFrame

ApplyFromString ==
    /\ mode = "fn"
    /\ input.fn = "fromString"
    /\ output' = fromString(input.arg)
    /\ phase' = "returned"
    /\ UNCHANGED fnFrame

\* toString, and fromString on what it gave
ApplyToString ==
    /\ mode = "fn"
    /\ input.fn = "toString"
    /\ output' = [t |-> "trip", s |-> toString(input.arg),
                  back |-> fromString(StrVal(toString(input.arg)))]
    /\ phase' = "returned"
    /\ UNCHANGED fnFrame

ApplyGetElementTree ==
    /\ mode = "fn"
    /\ input.fn = "getElementTree"
    /\ output' = getElementTree(input.arg)
    /\ phase' = "returned"
    /\ UNCHANGED fnFrame

\* a caller serializes a parsed node that has children
ApplyParentElementTree ==
    /\ mode = "fn"
    /\ input.fn = "BaseNode.getElementTree"
    /\ output' = getElementTree(input.arg.node)
    /\ phase' = "returned"
    /\ UNCHANGED fnFrame

\* registerType on a new dispatcher, then dispatch
ApplyDispatch ==
    /\ mode = "fn"
    /\ input.fn = "dispatch"
    /\ output' = dispatch(dispatcherRegisterType(
                              input.arg.nsMap, EmptyMap, "StringNode",
                              input.arg.name, input.arg.namespace),
                          dicts[1], nodes[1])
    /\ phase' = "returned"
    /\ UNCHANGED fnFrame

\* splitNamespace(unsplitNamespace(name, namespace))
ApplySplitUnsplit ==
    /\ mode = "fn"
    /\ input.fn = "splitUnsplit"
    /\ output' = splitNamespace(unsplitNamespace(input.arg.name,
                                                 input.arg.namespace))
    /\ phase' = "returned"
    /\ UNCHANGED fnFrame

\* unsplitNamespace on the pair that splitNamespace(tag) gave
ApplyUnsplitSplit ==
    /\ mode = "fn"
    /\ input.fn = "unsplitSplit"
    /\ output' = unsplitNamespace(splitNamespace(input.arg.tag)[2],
                                  splitNamespace(input.arg.tag)[1])
    /\ phase' = "returned"
    /\ UNCHANGED fnFrame

ApplyGetName ==
    /\ mode = "fn"
    /\ input.fn = "_getName"
    /\ output' = GetName(dicts[1], nodes[1])
    /\ phase' = "returned"
    /\ UNCHANGED fnFrame

\* getElementTree of a slot-based object
ApplySlotElementTree ==
    /\ mode = "fn"
    /\ input.fn = "_splitData"
    /\ output' = slotElementTree(input.arg.tag,
                                 splitData(input.arg.slots, input.arg.fields))
    /\ phase' = "returned"
    /\ UNCHANGED fnFrame

ApplySlotElementTreeApi1 ==
    /\ mode = "fn"
    /\ input.fn = "_splitDataApi1"
    /\ output' = slotElementTree(input.arg.tag,
                                 splitDataApi1(input.arg.slots, input.arg.fields))
    /\ phase' = "returned"
    /\ UNCHANGED fnFrame

\* the handler's startElement for the document element
ApplyStartElement ==
    /\ mode = "fn"
    /\ input.fn = "startElement"
    /\ output' = startElement(input.arg.name, input.arg.attrs)
    /\ phase' = "returned"
    /\ UNCHANGED fnFrame

NextFn ==
    \/ ApplyStartElement
    \/ ApplySlotElementTree
    \/ ApplySlotElementTreeApi1
    \/ ApplyGetName
    \/ ApplySplitUnsplit
    \/ ApplyUnsplitSplit
    \/ ApplyDispatch
    \/ ApplyGetElementTree
    \/ ApplyFromString
    \/ ApplyToString
    \/ ApplyRoundTrip
    \/ ApplyFinalize
    \/ ApplyIterChildren
    \/ ApplyParentElementTree
    \/ ApplyGetChildren
    \/ ApplyGetAttributeByNamespace
    \/ ApplyGetAttributesByNamespace
    \/ ApplyGetSchemaLocations
    \/ ApplyChooseSchemaFile

SpecFn == InitFn /\ [][NextFn]_vars

\* the function fn was applied and output holds what it gave
Returned(fn) == mode = "fn" /\ phase = "returned" /\ input.fn = fn

\* the tag of an item that iterChildren gave and its place among the
\* stored children
TagOf(x) == getName(nodes[x.id])
Listed(order, n) == \E i \in 1..Len(order) : order[i] = n
PlaceOf(order, n) == CHOOSE i \in 1..Len(order) : order[i] = n
StoredAt(x) == CHOOSE i \in 1..Len(nodes[1].children) : nodes[1].children[i] = x

\* C16: iterChildren gives the children in parse order when the class
\* declares no ordering list; when it declares one it gives a permutation
\* of the children in which the children with a listed tag come before the
\* others, in the order of the list, the others are in the order of their
\* tags, and children with equal tags keep their parse order.
C16_IterChildrenOrder ==
    Returned("iterChildren") =>
        LET ch == nodes[1].children
            order == ClassTable[nodes[1].cls].childOrder
        IN  /\ output.t = "list"
            /\ Len(output.items) = Len(ch)
            /\ order = None => output.items = ch
            /\ order # None =>
                  /\ \A i \in 1..Len(ch) :
                        \E j \in 1..Len(ch) : output.items[j] = ch[i]
                  /\ \A i, j \in 1..Len(ch) :
                        i < j =>
                          LET a == TagOf(output.items[i])
                              b == TagOf(output.items[j])
                          IN  /\ Listed(order, a) \/ ~Listed(order, b)
                              /\ (Listed(order, a) /\ Listed(order, b))
                                    => PlaceOf(order, a) <= PlaceOf(order, b)
                              /\ (~Listed(order, a) /\ ~Listed(order, b))
                                    => ~StrLess(b, a)
                              /\ a = b => StoredAt(output.items[i])
                                            < StoredAt(output.items[j])

\* C17: getAttributeByNamespace(name, uri) gives the value of the attribute
\* (alias, name) for the smallest alias, None before every string, among the
\* aliases that the node's namespace map binds to uri and for which the
\* node has that attribute, and None when there is no such alias; with uri
\* None it gives what getAttribute(name) gives.
C17_AttributeByNamespace ==
    Returned("getAttributeByNamespace") =>
        LET m == dicts[nodes[1].nsMap]
            oa == nodes[1].otherAttributes
            name == input.arg.name
            uri == input.arg.namespace
            cands == {a \in DOMAIN m : m[a] = uri.s /\ <<a, name>> \in DOMAIN oa}
        IN  IF uri = NoneVal
            THEN output = IF <<None, name>> \in DOMAIN oa
                          THEN AttrVal(oa[<<None, name>>]) ELSE NoneVal
            ELSE IF cands = {} THEN output = NoneVal
            ELSE \E a \in cands :
                    /\ output = AttrVal(oa[<<a, name>>])
                    /\ \A b \in cands :
                          a = b \/ a = None \/ (b # None /\ StrLess(a, b))

\* two aliases of the map are bound to the URI asked for, the node has the
\* attribute under both, and the value under the smaller one came back
C17_Witness ==
    /\ Returned("getAttributeByNamespace")
    /\ input.arg.namespace = UriVal("u")
    /\ {<<"x">>, <<"y">>} \subseteq
           {a \in DOMAIN dicts[1] : dicts[1][a] = "u"}
    /\ {<<<<"x">>, AttrK>>, <<<<"y">>, AttrK>>}
           \subseteq DOMAIN nodes[1].otherAttributes
    /\ output = AttrVal(AttrXK)

\* the aliases the declarations among attrs bind to uri, and the keys of
\* the other attributes under one of these aliases
TopBound(attrs, uri) ==
    {DeclAlias(k) : k \in {x \in DOMAIN attrs : IsDecl(x) /\ attrs[x] = uri}}
TopKeysIn(attrs, uri) ==
    {k \in DOMAIN attrs :
        ~IsDecl(k) /\ splitNamespace(k)[1] \in TopBound(attrs, uri)}

\* C18: getAttributesByNamespace(uri) gives exactly the attributes of the
\* root that are no declarations and whose alias a declaration among the
\* root's attributes binds to uri, keyed by local name, also when two
\* aliases or the default and an alias are bound to uri; it gives the empty
\* dict when no declaration binds uri.
C18_AttributesOfNamespace ==
    Returned("getAttributesByNamespace") =>
        LET attrs == input.arg.attrs
            keys == TopKeysIn(attrs, input.arg.namespace)
        IN  /\ output.t = "dict"
            /\ DOMAIN output.m = {splitNamespace(k)[2] : k \in keys}
            /\ \A n \in DOMAIN output.m :
                  \E k \in keys : splitNamespace(k)[2] = n /\ output.m[n] = attrs[k]

\* the root has no schemaLocation attribute under an alias that one of its
\* declarations binds to the schema-instance namespace
NoSchemaLocation(attrs) ==
    \A k \in TopKeysIn(attrs, xmlSchemaNamespace) :
        splitNamespace(k)[2] # SchemaLocation

\* C19: chooseSchemaFile fails with UnknownSchemaError exactly when the
\* directory is None, is not an existing directory, or holds none of the
\* candidates; otherwise it gives the path in the directory of the first
\* candidate of the list that the directory holds; and
\* getSchemaLocationsFromStream fails with UnknownSchemaError when the root
\* has no schemaLocation attribute in the schema-instance namespace.
C19_SchemaLookup ==
    /\ Returned("chooseSchemaFile") =>
          LET sf == input.arg.schemaFiles
              dir == input.arg.schemaDir
              fs == input.arg.fs
              fails == \/ dir = None
                       \/ dir \notin DOMAIN fs
                       \/ \A i \in 1..Len(sf) : sf[i] \notin fs[dir]
          IN  /\ fails <=> output = Exc("UnknownSchemaError")
              /\ ~fails =>
                    \E i \in 1..Len(sf) :
                        /\ sf[i] \in fs[dir]
                        /\ \A j \in 1..(i - 1) : sf[j] \notin fs[dir]
                        /\ output = StrVal(dir \o <<"/">> \o sf[i])
    /\ Returned("getSchemaLocationsFromStream") =>
          ((input.arg.tn.name # None /\ NoSchemaLocation(input.arg.tn.attrs))
              => output = Exc("UnknownSchemaError"))

\* the directory holds both candidates and the path of the first came back
C19_Witness ==
    /\ Returned("chooseSchemaFile")
    /\ input.arg.schemaFiles = << <<"g">>, <<"f">> >>
    /\ input.arg.schemaDir = <<"d">>
    /\ {<<"f">>, <<"g">>} \subseteq input.arg.fs[<<"d">>]
    /\ output = StrVal(<<"d", "/", "g">>)

\* the text of the leaf, and the number a decimal numeral denotes
LeafText == IF nodes[1].children = <<>> THEN <<>> ELSE nodes[1].children[1].s
Digits == DOMAIN DigitVal
RECURSIVE Pow10(_)
Pow10(n) == IF n = 0 THEN 1 ELSE 10 * Pow10(n - 1)
RECURSIVE NumeralValue(_)
NumeralValue(s) ==
    IF s = <<>> THEN 0
    ELSE DigitVal[Head(s)] * Pow10(Len(s) - 1) + NumeralValue(Tail(s))

\* C20: an Integer leaf finalizes to the number its text denotes when the
\* text is a decimal numeral, to 0 when the text is empty or not numeric
\* (it holds no digit, or a character that is no digit, sign or white
\* space), and to the same value whatever its attributes are.
C20_IntegerLeaf ==
    Returned("finalize") =>
        /\ (LeafText # <<>> /\ \A i \in 1..Len(LeafText) : LeafText[i] \in Digits)
              => output = IntVal(NumeralValue(LeafText))
        /\ (\/ \A i \in 1..Len(LeafText) : LeafText[i] \notin Digits
            \/ \E i \in 1..Len(LeafText) :
                  LeafText[i] \notin Digits \cup WhiteSpace \cup {"+", "-"})
              => output = IntVal(0)
        /\ output = finalize(<<[nodes[1] EXCEPT !.otherAttributes = EmptyMap]>>, 1)

\* a leaf with an attribute and the text 42 finalized to 42
C20_Witness ==
    /\ Returned("finalize")
    /\ nodes[1].otherAttributes # EmptyMap
    /\ LeafText = <<"4", "2">>
    /\ output = IntVal(42)

\* C14: on every entry point, the iteration of a streaming parse
\* included, an error of the tokenizer about malformed input reaches the
\* caller as InvalidXML, never as the tokenizer's own SAXParseException.
C14_MalformedIsInvalidXML ==
    result.t = "exc" => result.e # "SAXParseException"

\* ---------------------------------------------------------------------
\* parseFile on a seekable stream, with and without validation
\* ---------------------------------------------------------------------

\* length of the stream of parseFile
StreamLen == 2

\* what the stream holds, as far as sniffing and validation look at it: the
\* root that ToplevelNode finds (name None: no root before the text goes
\* wrong), whether the text is well formed after the root, whether the
\* schema accepts it, and the directories on disk
SchemaLocationValue == <<"u", " ", "d", "/", "f">>
FileRoots ==
    { [name |-> None, attrs |-> EmptyMap],
      [name |-> TagA, attrs |-> EmptyMap],
      [name |-> TagA,
       attrs |-> (XmlnsX :> xmlSchemaNamespace)
                 @@ (AttrXSchemaLocation :> SchemaLocationValue)] }
FileSystems == {A(<<"d">>, {<<"f">>}), A(<<"d">>, {})}
FileInputs ==
    { [tn |-> tn, fs |-> fs, wellFormed |-> w, valid |-> v]
        : tn \in FileRoots, fs \in FileSystems,
          w \in BOOLEAN, v \in BOOLEAN }
FileTags == { <<TagA, EmptyMap>>, <<TagXA, EmptyMap>> }

InitFile ==
    /\ mode = "file"
    /\ input \in {i \in FileInputs :
                      /\ i.tn.name = None => ~i.wellFormed
                      /\ ~i.wellFormed => ~i.valid}
    /\ pos \in 0..StreamLen
    /\ origPos = 0
    /\ caller = NoCaller
    /\ output = NoneVal
    /\ typeDict = EmptyMap
    /\ nodes = <<>>
    /\ dicts = <<>>
    /\ stack = <<>>
    /\ rootNode = NoneVal
    /\ generatedNodes = <<>>
    /\ phase = "idle"
    /\ open = <<>>
    /\ rootDone = FALSE
    /\ call = 0
    /\ started = FALSE
    /\ docRoot = 0
    /\ result = NoneVal
    /\ yielded = <<>>
    /\ closed = <<>>
    /\ bufLen = 0

\* the frame of the steps of parseFile outside _parse
fileFrame == <<mode, typeDict, handlerVars, tokVars, call, started, docRoot,
               ghostVars, input, output>>

\* where parseFile goes after stream.tell(): to validate when asked to
afterEntry(validate) == IF validate THEN "validate" ELSE "seek"

\* where parseFile goes with what a step of validate gave
afterValidateContinue(r) == "seek"
afterValidate(r) == IF r.t = "exc" THEN "finally" ELSE "seek"

\* the position the finally clause leaves the stream at
finallyNoSeek(orig, cur) == cur
finallySeek(orig, cur) == orig

\* parseFile up to the first step of its try block: origPos = stream.tell(),
\* and with validate stream.seek(0)
ParseFile(validate, schemaDir) ==
    /\ mode = "file"
    /\ phase = "idle"
    /\ call < MaxCalls
    /\ origPos' = pos
    /\ caller' = [entryPos |-> pos, validate |-> validate,
                  schemaDir |-> schemaDir, validated |-> FALSE,
                  parseStart |-> 0 - 1,
                  entryStack |-> stack, entryRoot |-> rootNode,
                  frames |-> 0]
    /\ pos' = IF validate THEN 0 ELSE pos
    /\ phase' = afterEntry(validate)
    /\ result' = NoneVal
    /\ UNCHANGED fileFrame

\* validate up to the schema file: getSchemaLocationsFromStream reads the
\* root through ToplevelNode and seeks back to where it began, then
\* chooseSchemaFile looks the candidates up
ValidateLookup ==
    /\ mode = "file"
    /\ phase = "validate"
    /\ \E sl \in getSchemaLocationsFromStream(input.tn) :
       \E r \in {IF sl.t = "exc" THEN sl
                 ELSE chooseSchemaFile(sl.items, caller.schemaDir, input.fs)} :
           /\ result' = IF r.t = "exc" THEN r ELSE result
           /\ phase' = IF afterValidate(r) = "seek" THEN "tree"
                       ELSE afterValidate(r)
    /\ UNCHANGED <<pos, origPos, caller>>
    /\ UNCHANGED fileFrame

\* the rest of validate: etree.parse reads the stream to its end and the
\* schema accepts the tree or not; a text that is not well formed makes
\* etree.parse raise its own XMLSyntaxError
ValidateTree ==
    /\ mode = "file"
    /\ phase = "tree"
    /\ pos' = StreamLen
    /\ \E r \in {IF ~input.wellFormed THEN Exc("XMLSyntaxError")
                 ELSE IF ~input.valid THEN Exc("SchemaValidationError")
                 ELSE NoneVal} :
           /\ result' = r
           /\ phase' = afterValidate(r)
           /\ caller' = [caller EXCEPT !.validated = (r.t # "exc")]
    /\ UNCHANGED origPos
    /\ UNCHANGED fileFrame

\* stream.seek(0) before _parse; the parser starts reading from there
SeekZero ==
    /\ mode = "file"
    /\ phase = "seek"
    /\ pos' = 0
    /\ caller' = [caller EXCEPT !.parseStart = 0]
    /\ phase' = "parse"
    /\ UNCHANGED <<origPos, result>>
    /\ UNCHANGED fileFrame

\* the parser of _parse reads on
ParserRead ==
    /\ mode = "file"
    /\ phase = "parsing"
    /\ pos < StreamLen
    /\ pos' = pos + 1
    /\ UNCHANGED <<origPos, caller, phase, result>>
    /\ UNCHANGED fileFrame

\* the finally clause of parseFile: stream.seek(origPos), and the call
\* returns or raises what it had
Finally ==
    /\ mode = "file"
    /\ phase = "finally"
    /\ pos' = finallySeek(origPos, pos)
    /\ phase' = "idle"
    /\ UNCHANGED <<origPos, caller, result>>
    /\ UNCHANGED fileFrame

NextFile ==
    \/ \E v \in BOOLEAN, dir \in {None, <<"d">>} : ParseFile(v, dir)
    \/ ValidateLookup
    \/ ValidateTree
    \/ SeekZero
    \/ ParseBegin
    \/ ParserRead
    \/ \E e \in FileTags : StartElement(e[1], e[2])
    \/ EndElement
    \/ ParseError
    \/ ParseEnd
    \/ Finally

SpecFile == InitFile /\ [][NextFile]_vars

\* C11: whatever the position of the stream when parseFile is called and
\* however the call ends (root returned, InvalidXML,
\* UndefinedNamespaceError, UnknownSchemaError, SchemaValidationError), the
\* stream is at its entry position when the call returns or raises.
C11_PositionRestored ==
    [][(mode = "file" /\ phase # "idle" /\ phase' = "idle")
          => pos' = caller.entryPos]_vars

\* a call that began in the middle of the stream, validated, read the
\* stream to its end and failed, has returned with the stream where it was
C11_Witness ==
    /\ mode = "file"
    /\ phase = "idle"
    /\ caller.validate
    /\ caller.entryPos = 1
    /\ result = Exc("SchemaValidationError")
    /\ pos = 1

\* C12: with or without validation, the main parse of parseFile starts
\* reading the stream at the position it had when parseFile was called.
C12_ParseStartsAtEntry ==
    (mode = "file" /\ caller.parseStart # 0 - 1)
        => caller.parseStart = caller.entryPos

\* the steps of sniffing and validation
ValidationPhases == {"validate", "tree"}

\* C13: validation runs only when asked for and before the parse: no step
\* of sniffing or validation runs with validate false, the main parse of a
\* call with validate true begins only after validation succeeded, and
\* while a call with validate true has not passed validation, whether it
\* is still validating or has failed, no event has reached the handler and
\* its stack and root slot are as they were when the call began.
C13_ValidationPrecedesParsing ==
    /\ [](mode = "file" =>
            /\ phase \in ValidationPhases => caller.validate
            /\ (phase \in {"seek", "parse", "parsing"} /\ caller.validate)
                  => caller.validated
            /\ (caller.validate /\ ~caller.validated)
                  => (stack = caller.entryStack /\ rootNode = caller.entryRoot))
    /\ [][(mode = "file" /\ caller'.validate /\ ~caller'.validated)
            => UNCHANGED <<handlerVars, open, rootDone, started>>]_vars

\* a call with validate true found no schema and returned with the stack
\* that an earlier, failed parse had left behind
C13_Witness ==
    /\ mode = "file"
    /\ phase = "idle"
    /\ caller.validate
    /\ ~caller.validated
    /\ result = Exc("UnknownSchemaError")
    /\ call = 1
    /\ stack # <<>>
    /\ stack = caller.entryStack

\* the two trees are equal in name, attributes, namespace declarations and
\* ordered children
RECURSIVE TreeEq(_, _)
TreeEq(t1, t2) ==
    /\ t1.name = t2.name
    /\ t1.otherAttributes = t2.otherAttributes
    /\ t1.nsAttributes = t2.nsAttributes
    /\ Len(t1.children) = Len(t2.children)
    /\ \A i \in 1..Len(t1.children) : TreeEq(t1.children[i], t2.children[i])

\* C15: for every well-formed document of generic nodes without mixed
\* content, parsing it, serializing the root through getElementTree and
\* toXml, and parsing the result gives a tree equal to the first in name,
\* attributes, namespace declarations and ordered children.
C15_RoundTrip ==
    Returned("roundTrip") => TreeEq(output.first, output.second)

\* the text is true or 1 in any case with white space around it
LowerOf ==
    "T" :> "t" @@ "R" :> "r" @@ "U" :> "u" @@ "E" :> "e"
Folded(s) ==
    [i \in 1..Len(s) |-> IF s[i] \in DOMAIN LowerOf THEN LowerOf[s[i]] ELSE s[i]]
IsTrueText(s) ==
    \E a, b \in 0..Len(s) :
        /\ a <= b
        /\ \A i \in 1..a : s[i] \in WhiteSpace
        /\ \A i \in (b + 1)..Len(s) : s[i] \in WhiteSpace
        /\ Folded(SubSeq(s, a + 1, b)) \in {<<"t", "r", "u", "e">>, <<"1">>}

\* C21: fromString(toString(b)) = b for both booleans, toString gives
\* exactly the strings true and false, and fromString gives true exactly
\* for the texts that, white space around them trimmed and case ignored,
\* are true or 1, and false for every other text.
C21_BooleanRoundTrip ==
    /\ Returned("toString") =>
          /\ output.back = input.arg
          /\ output.s = IF input.arg.b THEN <<"t", "r", "u", "e">>
                        ELSE <<"f", "a", "l", "s", "e">>
    /\ (Returned("fromString") /\ input.arg.t = "str") =>
          output = BoolVal(IsTrueText(input.arg.s))

\* false went through toString, which gave the string false, and came
\* back from fromString
C21_Witness ==
    /\ Returned("toString")
    /\ input.arg = BoolVal(FALSE)
    /\ output.s = <<"f", "a", "l", "s", "e">>
    /\ output.back = BoolVal(FALSE)

\* txt is the canonical string of the value v of a leaf: the text of a
\* string, true or false for a boolean, the shortest decimal numeral of an
\* integer, and no text for None
IsCanonical(txt, v) ==
    CASE v.t \in {"str", "unicode"} -> txt.t = "str" /\ txt.s = v.s
      [] v.t = "bool" ->
            /\ txt.t = "str"
            /\ txt.s = IF v.b THEN <<"t", "r", "u", "e">>
                       ELSE <<"f", "a", "l", "s", "e">>
      [] v.t = "int" ->
            /\ txt.t = "str"
            /\ pyInt(txt.s) = [ok |-> TRUE, n |-> v.n]
            /\ \A i \in 1..Len(txt.s) : txt.s[i] \in Digits \cup {"-"}
            /\ \A i \in 1..(Len(txt.s) - 1) :
                  (i = 1 \/ txt.s[i - 1] = "-") => txt.s[i] # "0"
      [] v.t = "none" -> txt = NoneVal

\* C22: the element that getElementTree makes of a leaf node (Integer,
\* String, Boolean, Null) has the canonical string of the node's value as
\* its only content and none of the attributes, namespace declarations or
\* child elements the node was made with.
C22_LeafSerialization ==
    Returned("getElementTree") =>
        /\ IsCanonical(output.text, finalize(<<input.arg>>, 1))
        /\ output.children = <<>>
        /\ DOMAIN output.attrib = {}
        /\ DOMAIN output.nsmap = {}

\* ---------------------------------------------------------------------
\* characters and addChild called on one node
\* ---------------------------------------------------------------------

\* the node is nodes[1], of a class with or without _singleChildren; output
\* remembers the promoted child added last
InitNode ==
    /\ mode = "node"
    /\ \E cls \in {"PromotingNode", "GenericNode"} :
          nodes = <<FnNode(<<None, <<"p">>>>, cls, <<>>, EmptyMap, EmptyMap)>>
    /\ dicts = <<EmptyMap>>
    /\ input = <<>>
    /\ output = NoneVal
    /\ pos = 0
    /\ origPos = 0
    /\ caller = NoCaller
    /\ typeDict = EmptyMap
    /\ stack = <<>>
    /\ rootNode = NoneVal
    /\ generatedNodes = <<>>
    /\ phase = "idle"
    /\ open = <<>>
    /\ rootDone = FALSE
    /\ call = 0
    /\ started = FALSE
    /\ docRoot = 0
    /\ result = NoneVal
    /\ yielded = <<>>
    /\ closed = <<>>
    /\ bufLen = 0

nodeFrame ==
    <<mode, typeDict, dicts, stack, rootNode, generatedNodes, phase, open,
      rootDone, call, started, docRoot, result, yielded, closed, bufLen,
      pos, origPos, caller, input>>

\* node.characters(ch)
NodeCharacters(ch) ==
    /\ mode = "node"
    /\ \E new \in {characters(nodes[1], ch)} :
          /\ \A i \in 1..Len(new) :
                new[i].t = "unicode" => Len(new[i].s) <= MaxText
          /\ nodes' = [nodes EXCEPT ![1].children = new,
                                    ![1].origin = OriginAfterCharacters(
                                        nodes[1].children, new, nodes[1].origin)]
    /\ UNCHANGED output
    /\ UNCHANGED nodeFrame

\* node.addChild(child) for a child of class cls just made, named name and
\* holding the text run text if that is not empty
NodeAddChild(name, cls, text) ==
    /\ mode = "node"
    /\ Len(nodes) <= MaxNodes
    /\ \E heap \in {Append(nodes,
                       FnNode(<<None, name>>, cls,
                              IF text = <<>> THEN <<>> ELSE <<UnicodeVal(text)>>,
                              EmptyMap, EmptyMap))} :
       \E parent \in {addChild(heap, 1, Len(heap))} :
          /\ nodes' = WithFinalized(
                          [heap EXCEPT ![1] =
                              [parent EXCEPT !.origin =
                                  OriginAfterAddChild(
                                      nodes[1].children, parent.children,
                                      nodes[1].origin,
                                      Promoted(nodes[1].children,
                                               parent.children))]],
                          <<Len(heap)>>)
          /\ output' = IF name \in ClassTable[nodes[1].cls].singleChildren
                       THEN [t |-> "last", name |-> name,
                             v |-> finalize(heap, Len(heap))]
                       ELSE output
    /\ UNCHANGED nodeFrame

NextNode ==
    \/ \E ch \in Texts : NodeCharacters(ch)
    \/ \E name \in {<<"s">>, <<"a">>}, cls \in {"GenericNode", "StringNode"},
          text \in {<<>>} \cup Texts :
          NodeAddChild(name, cls, text)

SpecNode == InitNode /\ [][NextNode]_vars

\* C23: for a class with promoted tags, after any sequence of characters
\* and addChild calls no child whose name is a promoted tag is among the
\* ordered children, and the field named after the tag holds the finalized
\* value of the promoted child added last.
C23_PromotedChildren ==
    mode = "node" =>
        /\ \A i \in 1..Len(nodes[1].children) :
              nodes[1].children[i].t = "node" =>
                  getName(nodes[nodes[1].children[i].id])
                      \notin ClassTable[nodes[1].cls].singleChildren
        /\ output.t = "last" =>
              /\ output.name \in DOMAIN nodes[1].fields
              /\ nodes[1].fields[output.name] = output.v

\* the URI an alias stands for under a namespace map, NoUri when the map
\* does not bind it
UriOf(m, alias) == IF alias \in DOMAIN m THEN m[alias] ELSE NoUri

\* C24: after registerType(class, name, alias) on a dispatcher with the
\* namespace map M, dispatch(node) makes an instance of class for every
\* node whose local name is name and whose namespace URI is M[alias], the
\* class registered without namespace and the node without alias and
\* default namespace included, and gives None for every other node.
C24_Dispatch ==
    (Returned("dispatch") /\ input.arg.name # None) =>
        IF /\ nodes[1].name[2] = input.arg.name
           /\ UriOf(dicts[1], nodes[1].name[1])
                 = UriOf(input.arg.nsMap, input.arg.namespace)
        THEN output = [t |-> "instance", cls |-> "StringNode"]
        ELSE output = NoneVal

HasColon(str) == \E i \in 1..Len(str) : str[i] = Colon

\* C25: splitNamespace(unsplitNamespace(n, a)) = (a, n) for every local
\* name n without colon and every alias a, None or any string; and
\* unsplitNamespace applied to the pair that splitNamespace(t) gives is t
\* again, for every tag t.
C25_SplitUnsplit ==
    /\ Returned("splitUnsplit") =>
          output = <<input.arg.namespace, input.arg.name>>
    /\ Returned("unsplitSplit") => output = input.arg.tag

\* C25 as it holds: splitNamespace(unsplitNamespace(n, a)) = (a, n) for
\* every local name n without colon and every alias a that is None or a
\* string without colon; and unsplitNamespace applied to the pair that
\* splitNamespace(t) gives is t again, for every tag t.
C25_SplitUnsplitColonFree ==
    /\ (Returned("splitUnsplit")
          /\ (input.arg.namespace = None \/ ~HasColon(input.arg.namespace)))
          => output = <<input.arg.namespace, input.arg.name>>
    /\ Returned("unsplitSplit") => output = input.arg.tag

\* the name ab qualified with the alias x came back as the pair (x, ab)
C25_Witness ==
    /\ Returned("splitUnsplit")
    /\ input.arg.namespace = <<"x">>
    /\ input.arg.name = <<"a", "b">>
    /\ output = << <<"x">>, <<"a", "b">> >>

\* C26: the element name that _getName hands to the tree builder is the
\* node's absolute name: the local name qualified with the URI of the
\* node's namespace, unless the node has no alias and no default namespace
\* is in scope; a node without alias under a default namespace gets the
\* URI of that namespace.
C26_NameIsAbsoluteName ==
    Returned("_getName") =>
        /\ output = getAbsoluteName(dicts[1], nodes[1])
        /\ output = IF nodes[1].name[1] = None /\ None \notin DOMAIN dicts[1]
                    THEN nodes[1].name[2]
                    ELSE <<"{", dicts[1][nodes[1].name[1]], "}">>
                         \o nodes[1].name[2]

\* what the fields of a slot-based object are: scalars, absent, values with
\* a tree of their own, and the rest
IsScalarField(v) == v.t \in {"bool", "int", "str", "unicode"}
HasOwnTree(v) == v.t \in {"tree", "slist"}
SlotFieldsOk(fields) ==
    \A k \in DOMAIN fields :
        IsScalarField(fields[k]) \/ fields[k] = NoneVal \/ HasOwnTree(fields[k])
SlotClassified(fields, elem) ==
    /\ DOMAIN elem.attrib = {k \in DOMAIN fields : IsScalarField(fields[k])}
    /\ \A k \in DOMAIN elem.attrib :
          elem.attrib[k] =
              CASE fields[k].t = "bool" ->
                       IF fields[k].b THEN <<"t","r","u","e">>
                       ELSE <<"f","a","l","s","e">>
                [] fields[k].t = "int" ->
                       IF fields[k].n = 12 THEN <<"1","2">> ELSE <<"-","3">>
                [] OTHER -> fields[k].s
    /\ Len(elem.children) =
           Cardinality({k \in DOMAIN fields : HasOwnTree(fields[k])})

\* C27: serializing a slot-based object classifies every field: a boolean,
\* integer or text field is an attribute (true/false, the decimal string),
\* an absent one gives nothing, one with a tree of its own is a child
\* element, and any other field, a list without a tree of its own too,
\* makes the serialization raise XmlLibError; this for _splitData of
\* xmllib.py
C27_SlotFieldsClassified ==
    Returned("_splitData") =>
        IF SlotFieldsOk(input.arg.fields)
        THEN output.raised = "" /\ SlotClassified(input.arg.fields, output)
        ELSE output.raised = "XmlLibError"

\* the class that the registerType calls in log leave for the (alias, local
\* tag) pair key: that of the last call made under the pair, a name left
\* out standing for the class-level name; the generic class without one
PairOfCall(c) ==
    <<IF c[3] = None THEN ClassTable[c[1]].namespace ELSE c[3],
      IF c[2] = None THEN ClassTable[c[1]].name ELSE c[2]>>
CallsUnder(log, key) == {i \in 1..Len(log) : PairOfCall(log[i]) = key}
LastRegistered(log, key) ==
    IF CallsUnder(log, key) = {} THEN "GenericNode"
    ELSE log[CHOOSE i \in CallsUnder(log, key) :
                 \A j \in CallsUnder(log, key) : j <= i][1]

C30_Characters ==
    [][ LET n == nodes[1]
            m == nodes'[1]
        IN  /\ (Len(nodes') = Len(nodes) /\ n.children = <<>>) =>
                  \E t \in Texts : m.children = <<UnicodeVal(t)>>
            /\ (Len(nodes') = Len(nodes) /\ n.children # <<>>
                    /\ Last(n.origin) = "text") =>
                  \E t \in Texts :
                      /\ m.children =
                             [n.children EXCEPT ![Len(n.children)] =
                                 UnicodeVal(Last(n.children).s \o t)]
                      /\ m.fields = n.fields
                      /\ m.name = n.name
            /\ (Len(nodes') = Len(nodes) /\ n.children # <<>>
                    /\ Last(n.origin) # "text") =>
                  m.children = n.children
            /\ (Len(nodes') = Len(nodes) + 1 /\ n.origin = <<"text">>) =>
                  /\ m.children = <<finalize(nodes', Len(nodes'))>>
                  /\ getText(m).s = <<>>
      ]_vars

(***************************************************************************)
(* ToplevelNode: the probe for the first start tag.  input is the event    *)
(* stream the tokenizer would deliver, pos the number of events delivered, *)
(* closed the events the handler was called with, output the probe's name  *)
(* and attrs, result what getSchemaLocationsFromStream then gives.         *)
(***************************************************************************)
StartEvent(name, attrs) == [e |-> "start", name |-> name, attrs |-> attrs]
OtherEvent(e) == [e |-> e, name |-> None, attrs |-> EmptyMap]
\* a document starts with a start tag, or is malformed before one
ProbeStreams ==
    { <<first>> \o rest :
        first \in {StartEvent(TagA, m) : m \in SniffAttrs}
                  \cup {OtherEvent("error")},
        rest \in UNION { [1..n -> {StartEvent(TagB, EmptyMap),
                                   OtherEvent("characters"),
                                   OtherEvent("endElement"),
                                   OtherEvent("error")}] : n \in 0..1 } }

InitProbe ==
    /\ mode = "probe"
    /\ input \in ProbeStreams
    /\ pos = 0
    /\ closed = <<>>
    /\ output = [name |-> None, attrs |-> EmptyMap]
    /\ phase = "parsing"
    /\ result = NoneVal
    /\ nodes = <<>>
    /\ dicts = <<>>
    /\ origPos = 0
    /\ caller = NoCaller
    /\ typeDict = EmptyMap
    /\ stack = <<>>
    /\ rootNode = NoneVal
    /\ generatedNodes = <<>>
    /\ open = <<>>
    /\ rootDone = FALSE
    /\ call = 0
    /\ started = FALSE
    /\ docRoot = 0
    /\ yielded = <<>>
    /\ bufLen = 0

probeFrame ==
    <<mode, typeDict, nodes, dicts, stack, rootNode, generatedNodes, open,
      rootDone, call, started, docRoot, yielded, bufLen, origPos, caller,
      input>>

\* _Handler.startElement without its raise
probeStartElementQuiet(name, attrs) ==
    [name |-> name, attrs |-> attrs, raised |-> FALSE]

\* _Handler.startElement: keeps the name and a copy of the attributes and
\* raises _FirstTagFound
probeStartElement(name, attrs) ==
    [name |-> name, attrs |-> attrs, raised |-> TRUE]

\* the tokenizer delivers a start tag to the probe's handler; parseStream
\* catches _FirstTagFound, copies name and attrs and returns
ProbeStartElement ==
    /\ mode = "probe"
    /\ phase = "parsing"
    /\ pos < Len(input)
    /\ input[pos + 1].e = "start"
    /\ \E h \in {probeStartElement(input[pos + 1].name, input[pos + 1].attrs)} :
          /\ output' = IF h.raised THEN [name |-> h.name, attrs |-> h.attrs]
                       ELSE output
          /\ phase' = IF h.raised THEN "found" ELSE "parsing"
    /\ closed' = Append(closed, input[pos + 1])
    /\ pos' = pos + 1
    /\ UNCHANGED result
    /\ UNCHANGED probeFrame

\* the tokenizer raises SAXParseException (malformed input, or the input
\* ends with no element); parseStream catches it and returns
ProbeParseError ==
    /\ mode = "probe"
    /\ phase = "parsing"
    /\ pos = Len(input) \/ input[pos + 1].e = "error"
    /\ phase' = "malformed"
    /\ UNCHANGED <<output, closed, pos, result>>
    /\ UNCHANGED probeFrame

\* getSchemaLocationsFromStream after tn = ToplevelNode(stream)
ProbeReport ==
    /\ mode = "probe"
    /\ phase \in {"found", "malformed"}
    /\ \E r \in getSchemaLocationsFromStream(output) : result' = r
    /\ phase' = "reported"
    /\ UNCHANGED <<output, closed, pos>>
    /\ UNCHANGED probeFrame

NextProbe ==
    \/ ProbeStartElement
    \/ ProbeParseError
    \/ ProbeReport

SpecProbe == InitProbe /\ [][NextProbe]_vars

\* C31: the probe handles exactly one start-tag event of the stream and no
\* event after it: once it is through, name and attrs are the qualified
\* name and the raw attributes of the first start tag; when the tokenizer
\* reports malformed input before any start tag the probe ends without
\* raising, its name stays none, and getSchemaLocationsFromStream reports
\* InvalidXML.
C31_ProbeFirstStartTag ==
    mode = "probe" =>
        /\ Len(closed) <= 1
        /\ phase = "parsing" => closed = <<>> /\ output.name = None
        /\ (phase # "parsing" /\ input[1].e = "start") =>
              /\ closed = <<input[1]>>
              /\ output = [name |-> input[1].name, attrs |-> input[1].attrs]
              /\ phase = "reported" => result # Exc("InvalidXML")
        /\ (phase # "parsing" /\ input[1].e # "start") =>
              /\ closed = <<>>
              /\ output = [name |-> None, attrs |-> EmptyMap]
              /\ phase = "reported" => result = Exc("InvalidXML")
C31_Witness ==
    /\ mode = "probe"
    /\ phase = "reported"
    /\ Len(input) = 2 /\ input[2].e = "start"
    /\ closed = <<input[1]>>
    /\ AttrXSchemaLocation \in DOMAIN output.attrs
    /\ result.t = "list"

\* the alias xml is used by the name or by an attribute that is no
\* declaration, and no xmlns:xml is in scope
UsesBareXml(name, attrs) ==
    /\ XmlnsXml \notin DOMAIN attrs
    /\ \/ splitNamespace(name)[1] = XmlAlias
       \/ \E k \in DOMAIN attrs : Split1(k)[1] = XmlAlias /\ Len(Split1(k)) = 2

\* C32: an element whose name or one of whose attributes uses the alias xml
\* with no xmlns:xml in scope is constructed without
\* UndefinedNamespaceError, and the namespace map of its node binds xml to
\* the standard XML namespace.
C32_BareXmlBound ==
    (Returned("startElement") /\ UsesBareXml(input.arg.name, input.arg.attrs)) =>
        /\ output.ok
        /\ Len(output.nodes) = 1
        /\ XmlAlias \in DOMAIN output.dicts[output.nodes[1].nsMap]
        /\ output.dicts[output.nodes[1].nsMap][XmlAlias] = xmlBaseNamespace

(***************************************************************************)
(* StreamingDataBinder.parseFile on a seekable stream of StreamLen bytes,  *)
(* and the iterator it returns.  pos is the position of the stream,        *)
(* caller.parseStart the position of the iterator's first read, and        *)
(* caller.frames the calls the interpreter still allows on top of the      *)
(* consumer's call of next(), which depends on how deep the consumer is.   *)
(***************************************************************************)
MaxFrames == 2
IterTags == { <<TagA, EmptyMap>>, <<TagY, EmptyMap>> }

InitIter ==
    /\ mode = "streaming"
    /\ pos \in 0..StreamLen
    /\ origPos = 0
    /\ caller = NoCaller
    /\ input = <<>>
    /\ output = NoneVal
    /\ typeDict = EmptyMap
    /\ nodes = <<>>
    /\ dicts = <<>>
    /\ stack = <<>>
    /\ rootNode = NoneVal
    /\ generatedNodes = <<>>
    /\ phase = "idle"
    /\ open = <<>>
    /\ rootDone = FALSE
    /\ call = 0
    /\ started = FALSE
    /\ docRoot = 0
    /\ result = NoneVal
    /\ yielded = <<>>
    /\ closed = <<>>
    /\ bufLen = 0

\* parseFile of the streaming binder: origPos = stream.tell(); with validate
\* the stream is read from 0 and the schema accepts it or not; then
\* stream.seek(0), _parse builds the iterator (which clears the queue) and
\* reads nothing, and the finally clause seeks to origPos
IterParseFile(validate, valid) ==
    /\ mode = "streaming"
    /\ phase = "idle"
    /\ call = 0
    /\ origPos' = pos
    /\ pos' = finallySeek(pos, 0)
    /\ call' = call + 1
    /\ IF validate /\ ~valid
       THEN /\ result' = Exc("SchemaValidationError")
            /\ UNCHANGED <<phase, generatedNodes, caller>>
       ELSE /\ result' = NoneVal
            /\ phase' = "ready"
            /\ generatedNodes' = <<>>
            /\ caller' = [NoCaller EXCEPT !.entryPos = pos,
                                          !.validate = validate,
                                          !.validated = validate]
    /\ UNCHANGED <<mode, typeDict, nodes, dicts, stack, rootNode, open,
                   rootDone, started, docRoot, yielded, closed, bufLen,
                   input, output>>

\* _Iterator.next up to its test of the node, entered by the consumer with
\* room for frames more calls ("ready") or by the retry ("poll")
IterPoll(frames) ==
    /\ phase \in {"ready", "poll"}
    /\ caller' = IF phase = "ready" THEN [caller EXCEPT !.frames = frames]
                 ELSE caller
    /\ LET n == handlerNext
       IN  /\ generatedNodes' = n.generatedNodes
           /\ IF n.node # NoneVal
              THEN /\ result' = n.node
                   /\ yielded' = Append(yielded, n.node)
                   /\ phase' = "ready"
              ELSE /\ phase' = "read"
                   /\ UNCHANGED <<result, yielded>>
    /\ UNCHANGED <<mode, typeDict, nodes, dicts, stack, rootNode, tokVars,
                   call, started, docRoot, closed, bufLen, pos, origPos,
                   input, output>>

\* buf = self.stream.read(self.BUFFER_SIZE): n bytes, none only at the end
\* of the stream; on no data parser.close() and StopIteration
IterRead(n) ==
    /\ phase = "read"
    /\ n <= BUFFER_SIZE
    /\ n <= StreamLen - pos
    /\ n = 0 <=> pos = StreamLen
    /\ pos' = pos + n
    /\ bufLen' = n
    /\ caller' = IF caller.parseStart < 0
                 THEN [caller EXCEPT !.parseStart = pos] ELSE caller
    /\ IF n = 0
       THEN IF rootDone
            THEN /\ phase' = "stopped"
                 /\ result' = Exc("StopIteration")
            ELSE /\ phase' = "failed"
                 /\ result' = Exc("SAXParseException")
       ELSE /\ phase' = "feed"
            /\ UNCHANGED result
    /\ UNCHANGED <<mode, typeDict, handlerVars, tokVars, call, started,
                   docRoot, yielded, closed, origPos, input, output>>

\* parser.feed(buf) returns and next() ends with return self.next(): one
\* more call on the interpreter's stack, RuntimeError when there is no room
IterRetry ==
    /\ phase = "feed"
    /\ IF caller.frames <= 1
       THEN /\ Raise("RuntimeError")
            /\ UNCHANGED caller
       ELSE /\ phase' = "poll"
            /\ caller' = [caller EXCEPT !.frames = caller.frames - 1]
            /\ UNCHANGED result
    /\ UNCHANGED <<mode, typeDict, handlerVars, tokVars, call, started,
                   docRoot, ghostVars, pos, origPos, input, output>>

NextIter ==
    \/ \E r \in StreamRegistrations : RegisterType(r[1], r[2], r[3])
    \/ \E validate, valid \in BOOLEAN : IterParseFile(validate, valid)
    \/ \E frames \in 1..MaxFrames : IterPoll(frames)
    \/ \E n \in 0..StreamLen : IterRead(n)
    \/ \E e \in IterTags : StartElement(e[1], e[2])
    \/ EndElement
    \/ IterRetry
    \/ FeedError

SpecIter == InitIter /\ [][NextIter]_vars

\* a step that ends a call of next()
NextCallEnds ==
    /\ phase \in {"ready", "poll", "read", "feed"}
    /\ phase' \in {"ready", "stopped", "failed"}

\* C33: on a finite stream a call of next() goes back to its caller only
\* with an item that has become available or when the input is exhausted
\* (the read gave nothing), and each retry inside next() has consumed a
\* chunk that is not empty, so that the reads are bounded by the length of
\* the input.
C33_NextReturnsItemOrEnd ==
    [][ /\ NextCallEnds =>
              \/ /\ phase' = "ready"
                 /\ yielded' = Append(yielded, result')
              \/ /\ pos' = StreamLen
                 /\ phase = "read"
                 /\ bufLen' = 0
        /\ (phase = "feed" /\ phase' = "poll") => bufLen > 0
        /\ phase = "read" => (pos' = pos + bufLen' /\ pos' <= StreamLen)
      ]_vars

\* C38: the iterator that StreamingDataBinder.parseFile returns reads the
\* stream from position 0, as the plain parse does, whatever the position
\* of the stream when parseFile was entered.
C38_IteratorReadsFromZero ==
    (mode = "streaming" /\ caller.parseStart >= 0) => caller.parseStart = 0

\* C34: a value that addChild stored among the children of a parent, the
\* string of a String leaf child for one, stays as it is and where it is
\* through the later events of the parse on the parent: characters does
\* not append to it and addChild does not replace it.
C34_StoredChildKept ==
    [][ \A i \in 1..Len(nodes) :
           (i <= Len(nodes') /\ call' = call) =>
               \A k \in 1..Len(nodes[i].children) :
                   nodes[i].origin[k] = "child" =>
                       /\ k <= Len(nodes'[i].children)
                       /\ nodes'[i].children[k] = nodes[i].children[k]
      ]_vars

\* C35: every value put on the queue of the streaming handler is handed
\* out by exactly one call of next(), whatever the value, the None of a
\* yield-marked Null leaf too: at any time of an iteration the values
\* queued so far are those handed out followed by those still queued.
C35_QueuedIsYieldedOnce ==
    mode = "streaming" => closed = yielded \o generatedNodes

\* C36: iterChildren and getChildren end without an error on every list
\* of children a parse can store, for a class with _childOrder too when
\* the list holds the finalized value of a leaf child or a run of text.
C36_ChildrenNeverRaise ==
    (Returned("iterChildren") \/ Returned("getChildren")) => output.t = "list"

\* C37: the element that getElementTree makes of a parsed node holds one
\* child element for every child element the node was parsed with, those
\* of leaf classes too, whose finalized values the node stores; none is
\* left out, and the string of a String leaf child does not become the
\* text of the parent, which had no text of its own.
C37_EveryChildEmitted ==
    Returned("BaseNode.getElementTree") =>
        /\ Len(output.children) = Len(input.arg.kids)
        /\ output.text = NoneVal

====
